---- MODULE Spec2Model ----
(***************************************************************************)
(* Verification model of the feed recommendation service:                 *)
(*   - RecommendationEngine.generar_scroll_infinito (pool construction    *)
(*     and the slot-pattern assembly loop),                               *)
(*   - RecommendationEngine.generar_feed_flows_only,                      *)
(*   - the HTTP handlers of api/endpoints.py and the reload of the        *)
(*     DataService / RecommendationEngine singletons.                     *)
(***************************************************************************)
EXTENDS Integers, Sequences, FiniteSets, TLC

(***************************************************************************)
(* Program constants                                                       *)
(***************************************************************************)
VIDEOS_POR_RESPUESTA == 24
VENTANA_DIVERSIDAD_CREADORES == 12
PATRON_FEED == <<"VMP", "AU", "AU", "VMP", "NU", "FW">>
N_POOL_VMP == 110
N_POOL_NU == 95
N_POOL_AU == 170
N_POOL_FLOWS == 40
N_POOL_EXPLORE == 75
MAX_INTENTOS == 150
DIAS_CONTENIDO_NUEVO == 45
MIN_SKILLS_USADOS == 3
N_FLOWS_ONLY == 24
MAX_HISTORY_SIZE == 1000
HISTORY_TRIM_SIZE == 500
\* RIDGE_REGULARIZATION = 0.001 = 1 / RIDGE_DEN
RIDGE_DEN == 1000

(***************************************************************************)
(* Bounds of the model                                                     *)
(***************************************************************************)
MaxVideos == 40
MaxFlows == 6
MaxSemilla == 1
MaxPeticiones == 1
MaxReloads == 1
MaxFallos == 1
MaxCargas == 2
MaxEventosHttp == 1
MaxConexiones == 1
MaxActualizacionesProceso == 2
MaxEventos == 3
MaxInsertados == 4
MaxFlowsHttp == 27
MaxActualizaciones == 1002
MaxLibres == 2
MaxActualizacionesHilos == 2
CatalogoGrande == 173

(***************************************************************************)
(* Sequence helpers                                                        *)
(***************************************************************************)
Min(m, n) == IF m <= n THEN m ELSE n

Take(s, n) == SubSeq(s, 1, Min(n, Len(s)))

Reverse(s) == [i \in 1..Len(s) |-> s[Len(s) + 1 - i]]

Rotate(s, k) ==
    IF Len(s) = 0 THEN s
    ELSE [i \in 1..Len(s) |-> s[((i - 1 + k) % Len(s)) + 1]]

Range(s) == {s[i] : i \in 1..Len(s)}

\* the ids of a set in ascending order (ids are positive and below 'tope')
SortedSeq(S, tope) == SelectSeq([i \in 1..tope |-> i], LAMBDA i : i \in S)

\* A ranking of the candidate set S.  The code ranks by real-valued scores
\* that mix catalog features with np.random draws (nlargest, sample,
\* np.random.choice); the model draws the resulting order from a family of
\* permutations indexed by k.
Rank(S, tope, k) ==
    LET asc == SortedSeq(S, tope)
        rot == Rotate(asc, k \div 2)
    IN IF k % 2 = 0 THEN rot ELSE Reverse(rot)

(***************************************************************************)
(* State                                                                   *)
(***************************************************************************)
VARIABLES
    videos_df,          \* engine.videos_df: id -> row
    flows_df,           \* engine.flows_df: id -> row
    lista_negra,        \* data_service.lista_negra: set of URLs
    vistos,             \* prefs_usuario['vistos'] of the calling user
    videos_excluidos,   \* argument of generar_scroll_infinito
    incluir_fw,         \* argument of generar_scroll_infinito
    semilla,            \* state of the random generator / score noise
    pool_vmp, pool_nu, pool_au, pool_flows, pool_exploracion,
    idx_vmp, idx_nu, idx_au, idx_flow, idx_explore,
    feed,               \* list of feed entries
    fuente,             \* for each feed entry, the pool walk that accepted it
    ids_usados, skills_usados,
    creadores_usados_en_feed, creadores_por_ventana,
    ciclo, pos_patron,  \* loop counters of the assembly loop
    visitas,            \* slot visits so far: <<slot type, filled>>
    metricas,
    pc,
    \* --- api/endpoints.py module globals and the DataService singleton ---
    _data_service_instance,            \* "None" or "DS" (the one singleton)
    _recommendation_engine_instance,   \* SinEngine (None) or an engine
    ds_tablas,          \* the five DataFrames of the singleton: table -> load
    cargas_ok,          \* loads that completed
    cargas_fallidas,    \* loads that raised part-way
    hilos,              \* per handler: position, locals, response
    previo,             \* what was installed when the last reload started
    n_reloads,
    \* --- one HTTP request to /search/total, /search/discover, /search/flow ---
    endpoint,           \* the route of the request
    data,               \* await request.json(): key -> raw value
    activity_log,       \* flows the calling user viewed (table activity_log)
    db_falla,           \* the activity_log query of this request raised
    excluidos_motor,    \* the exclusion list handed to the engine
    feed_motor,         \* the feed the engine returned
    respuesta,          \* the HTTP response
    pc_http,
    \* --- one BanditContextualAdaptativo (n_features = 1) ---
    A, b, A_inv, theta,
    historial_recompensas, historial_contextos,
    registro,           \* every (contexto, recompensa) passed to actualizar
    ultima,             \* the last actualizar call and the score at its context
    version,            \* the update that last wrote A, b and A_inv
    hilo_act,           \* a thread inside actualizar: position and arguments
    hilo_sel,           \* a thread inside seleccionar_lote: position, reads
    \* --- services/tracking.py: ActivityTracker, Redis and activity_log ---
    redis_client,       \* "conectado", or "None" when _connect_redis failed
    redis_falla,        \* 0, or k: the k-th Redis command of a tracking
                        \* call raises
    user_activity,      \* the Redis list user_activity:{user_id}, head first
    insertados,         \* the events inserted into activity_log, in order
    n_eventos,          \* events pushed so far; they are numbered 1, 2, ...
    rastreo,            \* what the tracking calls of this request returned
    hilo_flush,         \* a worker inside flush_user_activity_to_mysql
    \* --- the worker process ---
    bandits,            \* bandit_vmp, bandit_au, bandit_nu of the engine
    ultima_peticion,    \* the kind of the last request the process answered
    conexiones          \* MySQL connections taken from the pool, not returned

varsCatalogo == <<videos_df, flows_df, lista_negra, vistos>>
varsPeticion == <<videos_excluidos, incluir_fw, semilla>>
varsPools == <<pool_vmp, pool_nu, pool_au, pool_flows, pool_exploracion>>
varsCursores == <<idx_vmp, idx_nu, idx_au, idx_flow, idx_explore>>
varsLoop == <<feed, fuente, ids_usados, skills_usados,
              creadores_usados_en_feed, creadores_por_ventana,
              ciclo, pos_patron, visitas>>
varsFeed == <<varsCatalogo, varsPeticion, varsPools, varsCursores, varsLoop,
              metricas, pc>>
varsReload == <<_data_service_instance, _recommendation_engine_instance,
                ds_tablas, cargas_ok, cargas_fallidas, hilos,
                previo, n_reloads>>
varsHttp == <<endpoint, data, activity_log, db_falla, excluidos_motor,
              feed_motor, respuesta, pc_http>>
varsBandit == <<A, b, A_inv, theta, historial_recompensas,
                historial_contextos, registro, ultima, version,
                hilo_act, hilo_sel>>
varsTracking == <<redis_client, redis_falla, user_activity, insertados,
                  n_eventos, rastreo, hilo_flush>>
varsProceso == <<bandits, ultima_peticion, conexiones>>
vars == <<varsFeed, varsReload, varsHttp, varsBandit, varsTracking,
         varsProceso>>

(***************************************************************************)
(* Catalog lookups (RecommendationEngine._cachear_datos_videos)            *)
(***************************************************************************)
VideoIds == DOMAIN videos_df
FlowIds == DOMAIN flows_df

TopeIds ==
    LET todos == VideoIds \cup FlowIds
    IN IF todos = {} THEN 0 ELSE CHOOSE m \in todos : \A x \in todos : x <= m

video_a_creador(vid) == videos_df[vid].user_id
video_a_url(vid) == videos_df[vid].video
cache_skills_video(vid) ==
    IF vid \in VideoIds THEN videos_df[vid].video_skills ELSE {}

\* mutant: the defensive blacklist recheck is lost
SinRevisarListaNegra(vid) == FALSE

_video_en_lista_negra(vid) ==
    IF vid \notin VideoIds THEN FALSE
    ELSE video_a_url(vid) \in lista_negra

(***************************************************************************)
(* Candidate pools                                                         *)
(***************************************************************************)
\* mutant: the caller's exclusion list is not merged into ids_excluir
IdsExcluirSoloVistos == vistos

\* ids_excluir = prefs_usuario['vistos'] | set(videos_excluidos)
IdsExcluir == vistos \cup videos_excluidos

_seleccionar_vmp_rapido(ids_excluir, creadores_usados, n, k) ==
    LET base == {v \in VideoIds : v \notin ids_excluir
                     /\ videos_df[v].user_id \notin creadores_usados}
        conGate == {v \in base : videos_df[v].pasa_gate_calidad = 1}
        candidatos == IF conGate = {} THEN base ELSE conGate
        top == Take(Rank(candidatos, TopeIds, k), 2 * n)
    IN Take(Rotate(top, k), n)

_seleccionar_nu_rapido(ids_excluir, creadores_usados, n, k) ==
    LET candidatos == {v \in VideoIds : v \notin ids_excluir
                          /\ videos_df[v].user_id \notin creadores_usados
                          /\ videos_df[v].days_since_creation
                                 <= DIAS_CONTENIDO_NUEVO}
        top == Take(Rank(candidatos, TopeIds, k), 2 * n)
    IN IF Len(top) > n THEN Take(Rotate(top, k), n) ELSE top

\* mutant: the AU selector returns only half of the n best candidates
_seleccionar_au_mitad(ids_excluir, creadores_usados, n, k) ==
    LET candidatos == {v \in VideoIds : v \notin ids_excluir
                          /\ videos_df[v].user_id \notin creadores_usados}
    IN Take(Rank(candidatos, TopeIds, k), n \div 2)

_seleccionar_au_rapido(ids_excluir, creadores_usados, n, k) ==
    LET candidatos == {v \in VideoIds : v \notin ids_excluir
                          /\ videos_df[v].user_id \notin creadores_usados}
    IN Take(Rank(candidatos, TopeIds, k), n)

_seleccionar_flows(ids_excluir, creadores_usados, n, k) ==
    LET candidatos == {f \in FlowIds : f \notin ids_excluir
                          /\ flows_df[f].user_id \notin creadores_usados}
    IN Take(Rank(candidatos, TopeIds, k), n)

_seleccionar_boost_exploracion(ids_excluir, creadores_usados, n, k) ==
    LET candidatos == {v \in VideoIds : v \notin ids_excluir
                          /\ videos_df[v].user_id \notin creadores_usados}
    IN Take(Rank(candidatos, TopeIds, k), n)

(***************************************************************************)
(* Assembly loop of generar_scroll_infinito.  The local variables of the   *)
(* loop are gathered in a record s so that one iteration is a function.    *)
(***************************************************************************)
Estado ==
    [feed |-> feed, fuente |-> fuente, ids_usados |-> ids_usados,
     skills_usados |-> skills_usados,
     creadores_usados_en_feed |-> creadores_usados_en_feed,
     creadores_por_ventana |-> creadores_por_ventana,
     idx_vmp |-> idx_vmp, idx_nu |-> idx_nu, idx_au |-> idx_au,
     idx_flow |-> idx_flow, idx_explore |-> idx_explore]

\* mutant: no extra cycle after the n_videos // longitud_patron full ones
CiclosSinExtra == VIDEOS_POR_RESPUESTA \div Len(PATRON_FEED)

\* ciclos = (n_videos // self.longitud_patron) + 1
Ciclos == (VIDEOS_POR_RESPUESTA \div Len(PATRON_FEED)) + 1

\* mutant: the reset of the creator window also rewinds the pool cursors
ReiniciarVentanaYCursores(s) ==
    IF Len(s.feed) > 0
         /\ Len(s.feed) % VENTANA_DIVERSIDAD_CREADORES = 0
         /\ Len(s.creadores_por_ventana) >= VENTANA_DIVERSIDAD_CREADORES
    THEN [s EXCEPT
            !.creadores_usados_en_feed =
                @ \ Range(SubSeq(s.creadores_por_ventana, 1,
                                 VENTANA_DIVERSIDAD_CREADORES)),
            !.creadores_por_ventana =
                SubSeq(@, VENTANA_DIVERSIDAD_CREADORES + 1, Len(@)),
            !.idx_vmp = 0, !.idx_nu = 0, !.idx_au = 0,
            !.idx_flow = 0, !.idx_explore = 0]
    ELSE s

\* mutant: the creator window is never reset
SinReiniciarVentana(s) == s

\* the reset of the creator window at the top of an iteration
ReiniciarVentana(s) ==
    IF Len(s.feed) > 0
         /\ Len(s.feed) % VENTANA_DIVERSIDAD_CREADORES = 0
         /\ Len(s.creadores_por_ventana) >= VENTANA_DIVERSIDAD_CREADORES
    THEN LET creadores_a_remover ==
                 Range(SubSeq(s.creadores_por_ventana, 1,
                              VENTANA_DIVERSIDAD_CREADORES))
         IN [s EXCEPT
               !.creadores_usados_en_feed = @ \ creadores_a_remover,
               !.creadores_por_ventana =
                   SubSeq(@, VENTANA_DIVERSIDAD_CREADORES + 1, Len(@))]
    ELSE s

\* mutant: the skill-novelty test is dropped
SkillsSiempreAceptables(vid, s) == TRUE

\* skill-novelty test of the primary pools
SkillsAceptables(vid, s) ==
    \/ Cardinality(cache_skills_video(vid) \ s.skills_usados) >= 1
    \/ Cardinality(s.skills_usados) < MIN_SKILLS_USADOS

\* while idx < len(pool) and intentos < max_intentos: walk of the VMP, AU
\* or NU pool.  Result: the cursor after the walk and the accepted id
\* (0 stands for None).
RECURSIVE CaminarPrimario(_, _, _, _, _)
CaminarPrimario(pool, idx, intentos, revisa_lista_negra, s) ==
    IF ~(idx < Len(pool) /\ intentos < MAX_INTENTOS)
    THEN [idx |-> idx, video_id |-> 0]
    ELSE LET vid == pool[idx + 1]
         IN IF revisa_lista_negra /\ _video_en_lista_negra(vid)
            THEN CaminarPrimario(pool, idx + 1, intentos + 1,
                                 revisa_lista_negra, s)
            ELSE IF /\ vid \notin s.ids_usados
                    /\ video_a_creador(vid) \notin s.creadores_usados_en_feed
                    /\ SkillsAceptables(vid, s)
                 THEN [idx |-> idx + 1, video_id |-> vid]
                 ELSE CaminarPrimario(pool, idx + 1, intentos + 1,
                                      revisa_lista_negra, s)

\* mutant: the EXPLORE walk applies the skill-novelty test as well
RECURSIVE CaminarExploreConSkills(_, _, _)
CaminarExploreConSkills(pool, idx, s) ==
    IF ~(idx < Len(pool))
    THEN [idx |-> idx, video_id |-> 0]
    ELSE LET vid == pool[idx + 1]
         IN IF /\ vid \notin s.ids_usados
               /\ video_a_creador(vid) \notin s.creadores_usados_en_feed
               /\ SkillsAceptables(vid, s)
            THEN [idx |-> idx + 1, video_id |-> vid]
            ELSE CaminarExploreConSkills(pool, idx + 1, s)

\* while idx_explore < len(pool_exploracion): walk of the EXPLORE pool
RECURSIVE CaminarExplore(_, _, _)
CaminarExplore(pool, idx, s) ==
    IF ~(idx < Len(pool))
    THEN [idx |-> idx, video_id |-> 0]
    ELSE LET vid == pool[idx + 1]
         IN IF /\ vid \notin s.ids_usados
               /\ video_a_creador(vid) \notin s.creadores_usados_en_feed
            THEN [idx |-> idx + 1, video_id |-> vid]
            ELSE CaminarExplore(pool, idx + 1, s)

\* while idx_flow < len(pool_flows) and not video_encontrado
RECURSIVE CaminarFlows(_, _, _)
CaminarFlows(pool, idx, s) ==
    IF ~(idx < Len(pool))
    THEN [idx |-> idx, video_id |-> 0]
    ELSE LET vid == pool[idx + 1]
         IN IF /\ vid \notin s.ids_usados
               /\ vid \in FlowIds
               /\ flows_df[vid].user_id \notin s.creadores_usados_en_feed
            THEN [idx |-> idx + 1, video_id |-> vid]
            ELSE CaminarFlows(pool, idx + 1, s)

\* mutant: the accepted id is not added to ids_usados
AgregarSinMarcar(s, vid, es_flow, tipo_slot, origen) ==
    LET creador == IF es_flow THEN flows_df[vid].user_id
                   ELSE video_a_creador(vid)
        entrada == [position |-> Len(s.feed) + 1,
                    video_id |-> vid,
                    type |-> IF es_flow THEN "challenge" ELSE "resume",
                    patron_type |-> tipo_slot,
                    video_url |-> IF es_flow THEN flows_df[vid].video
                                  ELSE videos_df[vid].video]
    IN [s EXCEPT
          !.feed = Append(@, entrada),
          !.fuente = Append(@, origen),
          !.skills_usados = IF es_flow THEN @
                            ELSE @ \cup cache_skills_video(vid),
          !.creadores_usados_en_feed = @ \cup {creador},
          !.creadores_por_ventana = Append(@, creador)]

\* feed.append({...}); ids_usados.add(video_id), together with the updates
\* made where the item was accepted
Agregar(s, vid, es_flow, tipo_slot, origen) ==
    LET creador == IF es_flow THEN flows_df[vid].user_id
                   ELSE video_a_creador(vid)
        entrada == [position |-> Len(s.feed) + 1,
                    video_id |-> vid,
                    type |-> IF es_flow THEN "challenge" ELSE "resume",
                    patron_type |-> tipo_slot,
                    video_url |-> IF es_flow THEN flows_df[vid].video
                                  ELSE videos_df[vid].video]
    IN [s EXCEPT
          !.feed = Append(@, entrada),
          !.fuente = Append(@, origen),
          !.ids_usados = @ \cup {vid},
          !.skills_usados = IF es_flow THEN @
                            ELSE @ \cup cache_skills_video(vid),
          !.creadores_usados_en_feed = @ \cup {creador},
          !.creadores_por_ventana = Append(@, creador)]

\* mutant: an FW slot that found no flow falls back to the EXPLORE pool
SlotFWConFallback(s0, pools) ==
    LET s == ReiniciarVentana(s0)
        r == CaminarFlows(pools.flows, s.idx_flow, s)
        s1 == [s EXCEPT !.idx_flow = r.idx]
        e == CaminarExplore(pools.explore, s1.idx_explore, s1)
        s2 == [s1 EXCEPT !.idx_explore = e.idx]
    IN IF r.video_id # 0 THEN Agregar(s1, r.video_id, TRUE, "FW", "FW")
       ELSE IF e.video_id # 0
            THEN Agregar(s2, e.video_id, FALSE, "FW", "EXPLORE")
            ELSE s2

\* lines 1127-1148: an FW slot walks the flow pool only
SlotFW(s0, pools) ==
    LET s == ReiniciarVentana(s0)
        r == CaminarFlows(pools.flows, s.idx_flow, s)
        s1 == [s EXCEPT !.idx_flow = r.idx]
    IN IF r.video_id # 0 THEN Agregar(s1, r.video_id, TRUE, "FW", "FW")
       ELSE s1

\* a VMP, AU or NU slot: primary pool, then the EXPLORE pool
SlotPrimario(s0, pools, tipo_slot) ==
    LET s == ReiniciarVentana(s0)
        pool == CASE tipo_slot = "VMP" -> pools.vmp
                  [] tipo_slot = "AU" -> pools.au
                  [] tipo_slot = "NU" -> pools.nu
        idx == CASE tipo_slot = "VMP" -> s.idx_vmp
                 [] tipo_slot = "AU" -> s.idx_au
                 [] tipo_slot = "NU" -> s.idx_nu
        r == CaminarPrimario(pool, idx, 0, tipo_slot # "VMP", s)
        s1 == CASE tipo_slot = "VMP" -> [s EXCEPT !.idx_vmp = r.idx]
                [] tipo_slot = "AU" -> [s EXCEPT !.idx_au = r.idx]
                [] tipo_slot = "NU" -> [s EXCEPT !.idx_nu = r.idx]
    IN IF r.video_id # 0
       THEN Agregar(s1, r.video_id, FALSE, tipo_slot, tipo_slot)
       ELSE IF s1.idx_explore < Len(pools.explore)
            THEN LET e == CaminarExplore(pools.explore, s1.idx_explore, s1)
                     s2 == [s1 EXCEPT !.idx_explore = e.idx]
                 IN IF e.video_id # 0
                    THEN Agregar(s2, e.video_id, FALSE, tipo_slot, "EXPLORE")
                    ELSE s2
            ELSE s1

\* one iteration of the inner for loop, for the slot at pos_patron
Iterar(s, pools, tipo_slot) ==
    IF tipo_slot = "FW" THEN SlotFW(s, pools)
    ELSE SlotPrimario(s, pools, tipo_slot)

Pools ==
    [vmp |-> pool_vmp, nu |-> pool_nu, au |-> pool_au,
     flows |-> pool_flows, explore |-> pool_exploracion]

\* mutant: the AU pool is selected without excluding the VMP and NU pools
PoolsDeSinExcluirParaAU(ids_excluir, con_fw, k) ==
    LET creadores_usados == {}
        vmp == _seleccionar_vmp_rapido(ids_excluir, creadores_usados,
                                       N_POOL_VMP, k)
        nu == _seleccionar_nu_rapido(ids_excluir, creadores_usados,
                                     N_POOL_NU, k + 1)
        au == _seleccionar_au_rapido(ids_excluir, creadores_usados,
                                     N_POOL_AU, k + 2)
        fw == IF con_fw
              THEN _seleccionar_flows(ids_excluir, creadores_usados,
                                      N_POOL_FLOWS, k + 3)
              ELSE <<>>
        ex == _seleccionar_boost_exploracion(
                  ids_excluir \cup Range(au), creadores_usados,
                  N_POOL_EXPLORE, k + 4)
    IN [vmp |-> vmp, nu |-> nu, au |-> au, flows |-> fw, explore |-> ex]

\* lines 1048-1081: the five pools, built with creadores_usados = set()
PoolsDe(ids_excluir, con_fw, k) ==
    LET creadores_usados == {}
        vmp == _seleccionar_vmp_rapido(ids_excluir, creadores_usados,
                                       N_POOL_VMP, k)
        nu == _seleccionar_nu_rapido(ids_excluir, creadores_usados,
                                     N_POOL_NU, k + 1)
        excluir_para_au == ids_excluir \cup Range(vmp) \cup Range(nu)
        au == _seleccionar_au_rapido(excluir_para_au, creadores_usados,
                                     N_POOL_AU, k + 2)
        fw == IF con_fw
              THEN _seleccionar_flows(ids_excluir, creadores_usados,
                                      N_POOL_FLOWS, k + 3)
              ELSE <<>>
        ex == _seleccionar_boost_exploracion(
                  excluir_para_au \cup Range(au), creadores_usados,
                  N_POOL_EXPLORE, k + 4)
    IN [vmp |-> vmp, nu |-> nu, au |-> au, flows |-> fw, explore |-> ex]

\* lines 1089-1099: the locals before the loop
EstadoInicial ==
    [feed |-> <<>>, fuente |-> <<>>, ids_usados |-> {},
     skills_usados |-> {}, creadores_usados_en_feed |-> {},
     creadores_por_ventana |-> <<>>,
     idx_vmp |-> 0, idx_nu |-> 0, idx_au |-> 0,
     idx_flow |-> 0, idx_explore |-> 0]

\* the two nested for loops, from slot visit v on
RECURSIVE Ensamblar(_, _, _)
Ensamblar(s, pools, v) ==
    IF v >= Ciclos * Len(PATRON_FEED) \/ Len(s.feed) >= VIDEOS_POR_RESPUESTA
    THEN s
    ELSE Ensamblar(Iterar(s, pools, PATRON_FEED[(v % Len(PATRON_FEED)) + 1]),
                   pools, v + 1)

\* the feed returned by generar_scroll_infinito(user_id, 24, excluidos, fw)
generar_scroll_infinito(excluidos, con_fw, k) ==
    Ensamblar(EstadoInicial, PoolsDe(vistos \cup excluidos, con_fw, k), 0).feed

(***************************************************************************)
(* Catalogs and requests of the model                                      *)
(***************************************************************************)
\* videos_df with nv rows; the columns are the ones the assembly reads
CatalogoVideos(nv, ncre, g0, nmod, sk) ==
    [i \in 1..nv |->
        [id |-> i,
         user_id |-> ((i - 1) % ncre) + 1,
         pasa_gate_calidad |-> IF i > g0 THEN 1 ELSE 0,
         days_since_creation |-> IF nmod > 0 /\ i % nmod = 0 THEN 30 ELSE 90,
         video |-> i,
         video_skills |-> CASE sk = 0 -> {}
                            [] sk = 1 -> {i % 4}
                            [] OTHER -> {100 + i}]]

\* flows_df with nf rows whose ids start after foff
CatalogoFlows(nf, foff, ncre) ==
    [f \in (foff + 1)..(foff + nf) |->
        [id |-> f,
         user_id |-> ((f - 1) % ncre) + 1,
         days_since_creation |-> 10 * (f % 3),
         video |-> 1000 + f]]

ListaNegra(nv, bmod) == {u \in 1..nv : bmod > 0 /\ u % bmod = 0}

TamanosCatalogo == {0, 6, 30, MaxVideos}
CreadoresDe(nv) == {5, VENTANA_DIVERSIDAD_CREADORES, IF nv = 0 THEN 1 ELSE nv}
FlowsDe == {<<0, 0>>, <<MaxFlows, 0>>, <<MaxFlows, 50>>}
Peticiones == {<<{}, {}>>, <<{1, 16}, {2, 3, 17}>>, <<{}, 1..10>>}

InitLoop ==
    /\ pool_vmp = <<>> /\ pool_nu = <<>> /\ pool_au = <<>>
    /\ pool_flows = <<>> /\ pool_exploracion = <<>>
    /\ idx_vmp = 0 /\ idx_nu = 0 /\ idx_au = 0
    /\ idx_flow = 0 /\ idx_explore = 0
    /\ feed = <<>> /\ fuente = <<>>
    /\ ids_usados = {} /\ skills_usados = {}
    /\ creadores_usados_en_feed = {} /\ creadores_por_ventana = <<>>
    /\ ciclo = 0 /\ pos_patron = 0
    /\ visitas = <<>>
    /\ metricas = [total_videos |-> 0, unique_creators |-> 0]
    /\ pc = "inicio"

InitMediano ==
    \E nv \in TamanosCatalogo, g0 \in {0, 15}, nmod \in {0, 3},
       bmod \in {0, 4}, sk \in 0..2, fl \in FlowsDe, pet \in Peticiones :
      \E ncre \in CreadoresDe(nv) :
        /\ videos_df = CatalogoVideos(nv, ncre, g0, nmod, sk)
        /\ flows_df = CatalogoFlows(fl[1], fl[2], ncre)
        /\ lista_negra = ListaNegra(nv, bmod)
        /\ vistos = pet[1]
        /\ videos_excluidos = pet[2]

\* a catalog large enough for the AU pool to be full and EXPLORE non-empty
InitGrande ==
    \E bmod \in {0, 4}, sk \in 0..1, extra \in 0..2 :
      \E ncre \in {VENTANA_DIVERSIDAD_CREADORES, CatalogoGrande} :
        /\ videos_df = CatalogoVideos(CatalogoGrande + extra, ncre,
                                      CatalogoGrande - 1, 0, sk)
        /\ flows_df = CatalogoFlows(0, 0, 1)
        /\ lista_negra = ListaNegra(CatalogoGrande + extra, bmod)
        /\ vistos = {}
        /\ videos_excluidos = {}

\* a catalog in which one creator owns a run of items longer than the
\* attempts of one pool walk; the item after the first one is blacklisted
CatalogoProlifico(nv, n1) ==
    [i \in 1..nv |->
        [id |-> i,
         user_id |-> IF i <= n1 THEN 1 ELSE i,
         pasa_gate_calidad |-> IF i = nv THEN 1 ELSE 0,
         days_since_creation |-> 90,
         video |-> i,
         video_skills |-> {}]]

\* a large catalog with flows, one recent item that also passes the quality
\* gate and, for some requests, excluded ids
InitMixto ==
    \E extra \in 1..3, pet \in {<<{}, {}>>, <<{1}, {2}>>, <<{1}, {2, 3}>>} :
        /\ videos_df = CatalogoVideos(CatalogoGrande + extra,
                                      CatalogoGrande + extra,
                                      CatalogoGrande,
                                      CatalogoGrande + 1, 0)
        /\ flows_df = CatalogoFlows(MaxFlows, 0, 5)
        /\ lista_negra = {}
        /\ vistos = pet[1]
        /\ videos_excluidos = pet[2]

InitProlifico ==
    /\ videos_df = CatalogoProlifico(CatalogoGrande, MAX_INTENTOS + 10)
    /\ flows_df = CatalogoFlows(0, 0, 1)
    /\ lista_negra = {2}
    /\ vistos = {}
    /\ videos_excluidos = {}

\* the process right after lifespan() -> server.initialize_services():
\* the DataService singleton holds the first load; the globals of
\* api/endpoints.py are still None
Peticion == 1..MaxPeticiones
\* the handler of /search/reload is thread 0
HiloReload == 0
Hilos == {HiloReload} \cup Peticion
Tablas == <<"users", "videos", "interactions", "connections", "flows">>

\* an engine is identified by the loads its DataFrames came from
\* (RecommendationEngine.__init__ keeps references to the four tables)
SinEngine == [videos |-> 0, interactions |-> 0, flows |-> 0, connections |-> 0]
SinRespuesta == [engine |-> SinEngine, tablas |-> [t \in Range(Tablas) |-> 0]]

HiloInicial ==
    [pc |-> "nuevo", ret |-> "-", paso |-> 0, carga |-> 0,
     ds |-> "None", eng |-> SinEngine, status |-> 0, resp |-> SinRespuesta]

InitReload ==
    /\ _data_service_instance = "None"
    /\ _recommendation_engine_instance = SinEngine
    /\ ds_tablas = [t \in Range(Tablas) |-> 1]
    /\ cargas_ok = {1}
    /\ cargas_fallidas = {}
    /\ hilos = [h \in Hilos |-> HiloInicial]
    /\ previo = [ds |-> "None", engine |-> SinEngine,
                 tablas |-> [t \in Range(Tablas) |-> 0]]
    /\ n_reloads = 0

\* a list / str value of a request body is a sequence of elements:
\*   int         a JSON number n
\*   digitos     a str of decimal digits that reads n ("12", " 12")
\*   superindice a str for which isdigit() holds and int() raises ("\u00b2")
\*   texto       any other str ("abc", "-3", "")
\*   otro        a JSON value that is neither int nor str (1.5, null, {})
Elem(kind, n) == [kind |-> kind, n |-> n]
Lista(items) == [tipo |-> "list", items |-> items]
Cadena(items) == [tipo |-> "str", items |-> items]
Nulo == [tipo |-> "null", items |-> <<>>]
Ausente == [tipo |-> "ausente", items |-> <<>>]

Claves == {"excluded_ids", "LAST_IDS", "videos_excluidos"}
SinCuerpo == [c \in Claves |-> Ausente]
SinRespuestaHttp == [statusCode |-> 0, ids |-> <<>>]

\* no request has arrived yet
InitPeticionHttp ==
    /\ endpoint = "-"
    /\ data = SinCuerpo
    /\ db_falla = FALSE
    /\ excluidos_motor = <<>>
    /\ feed_motor = <<>>
    /\ respuesta = SinRespuestaHttp
    /\ pc_http = "espera"

InitHttp == InitPeticionHttp /\ activity_log = {}

\* a rational number num / den with den > 0
Frac(num, den) == [num |-> num, den |-> den]
FracLeq(p, q) == p.num * q.den <= q.num * p.den

HiloFuera == [pc |-> "fuera", x |-> 0, r |-> 0, n |-> 0]
SinLectura ==
    [pc |-> "fuera", leido_A |-> 0, leido_b |-> 0, leido_A_inv |-> 0]

\* BanditContextualAdaptativo.__init__ with n_features = 1
InitBandit ==
    /\ A = 1
    /\ b = 0
    /\ theta = Frac(0, 1)
    /\ A_inv = Frac(1, 1)
    /\ historial_recompensas = <<>>
    /\ historial_contextos = <<>>
    /\ registro = <<>>
    /\ ultima = [x |-> 0, r |-> 0, antes |-> Frac(0, 1),
                 despues |-> Frac(0, 1)]
    /\ version = [A |-> 0, b |-> 0, A_inv |-> 0]
    /\ hilo_act = HiloFuera
    /\ hilo_sel = SinLectura

FlushFuera ==
    [pc |-> "fuera", activities |-> <<>>, i |-> 0, inserted_count |-> 0]

\* no event is buffered and no worker is inside a flush
InitCache ==
    /\ user_activity = <<>>
    /\ insertados = <<>>
    /\ n_eventos = 0
    /\ rastreo = <<>>
    /\ hilo_flush = FlushFuera

\* ActivityTracker.__init__ with a Redis that connects and answers
InitTracking ==
    /\ redis_client = "conectado"
    /\ redis_falla = 0
    /\ InitCache

\* BanditContextualAdaptativo.__init__ with n_features = 1
BanditNuevo ==
    [A |-> 1, b |-> 0, theta |-> Frac(0, 1), A_inv |-> Frac(1, 1),
     historial_recompensas |-> <<>>, historial_contextos |-> <<>>]

Categorias == {"vmp", "au", "nu"}

\* the process after initialize_services(): RecommendationEngine.__init__
\* has run _inicializar_bandits; every connection is in the pool
InitProceso ==
    /\ bandits = [c \in Categorias |-> BanditNuevo]
    /\ ultima_peticion = "-"
    /\ conexiones = 0

Init ==
    /\ InitMediano \/ InitGrande \/ InitProlifico \/ InitMixto
    /\ incluir_fw \in BOOLEAN
    /\ semilla \in 0..MaxSemilla
    /\ InitLoop
    /\ InitReload
    /\ InitHttp
    /\ InitBandit
    /\ InitTracking
    /\ InitProceso

(***************************************************************************)
(* Actions of generar_scroll_infinito                                      *)
(***************************************************************************)
\* lines 1036-1081: exclusion set and the five pools
GenerarPools ==
    /\ pc = "inicio"
    /\ LET p == PoolsDe(IdsExcluir, incluir_fw, semilla)
       IN /\ pool_vmp' = p.vmp
          /\ pool_nu' = p.nu
          /\ pool_au' = p.au
          /\ pool_flows' = p.flows
          /\ pool_exploracion' = p.explore
    /\ pc' = "loop"
    /\ UNCHANGED <<varsCatalogo, varsPeticion, varsCursores, varsLoop,
                   metricas>>
    /\ UNCHANGED <<varsReload, varsHttp, varsBandit, varsTracking, varsProceso>>

\* one iteration of "for pos_patron in range(self.longitud_patron)"
Visitar(tipo_slot) ==
    /\ pc = "loop"
    /\ ciclo < Ciclos
    /\ Len(feed) < VIDEOS_POR_RESPUESTA
    /\ PATRON_FEED[pos_patron + 1] = tipo_slot
    /\ LET s == Iterar(Estado, Pools, tipo_slot)
       IN /\ feed' = s.feed
          /\ fuente' = s.fuente
          /\ ids_usados' = s.ids_usados
          /\ skills_usados' = s.skills_usados
          /\ creadores_usados_en_feed' = s.creadores_usados_en_feed
          /\ creadores_por_ventana' = s.creadores_por_ventana
          /\ idx_vmp' = s.idx_vmp
          /\ idx_nu' = s.idx_nu
          /\ idx_au' = s.idx_au
          /\ idx_flow' = s.idx_flow
          /\ idx_explore' = s.idx_explore
          /\ visitas' = Append(visitas,
                               <<tipo_slot, Len(s.feed) > Len(feed)>>)
    /\ IF pos_patron + 1 = Len(PATRON_FEED)
       THEN ciclo' = ciclo + 1 /\ pos_patron' = 0
       ELSE ciclo' = ciclo /\ pos_patron' = pos_patron + 1
    /\ UNCHANGED <<varsCatalogo, varsPeticion, varsPools, metricas, pc>>
    /\ UNCHANGED <<varsReload, varsHttp, varsBandit, varsTracking, varsProceso>>

SlotVMPStep == Visitar("VMP")
SlotAUStep == Visitar("AU")
SlotNUStep == Visitar("NU")
SlotFWStep == Visitar("FW")

\* the loop ends (range exhausted or len(feed) >= n_videos); metrics
Terminar ==
    /\ pc = "loop"
    /\ ciclo >= Ciclos \/ Len(feed) >= VIDEOS_POR_RESPUESTA
    /\ metricas' = [total_videos |-> Len(feed),
                    unique_creators |-> Cardinality(creadores_usados_en_feed)]
    /\ pc' = "done"
    /\ UNCHANGED <<varsCatalogo, varsPeticion, varsPools, varsCursores,
                   varsLoop>>
    /\ UNCHANGED <<varsReload, varsHttp, varsBandit, varsTracking, varsProceso>>

Next ==
    \/ GenerarPools
    \/ SlotVMPStep
    \/ SlotAUStep
    \/ SlotNUStep
    \/ SlotFWStep
    \/ Terminar

Spec == Init /\ [][Next]_vars

(***************************************************************************)
(* api/endpoints.py: the singletons and /search/reload.                    *)
(* reload_data is an "async def" without await: it runs on the event loop  *)
(* from its first to its last statement.  get_recommendation_engine and    *)
(* get_data_service are plain "def" dependencies, which FastAPI runs in    *)
(* threadpool threads; they interleave with the reload statement by        *)
(* statement.  The body of a feed handler runs on the event loop.          *)
(***************************************************************************)
\* each load_all_data call produces its own snapshot; it is named after the
\* handler that runs it (1 is the load made by lifespan() at start-up)
CargaDe(h) == IF h = HiloReload THEN 1 + MaxPeticiones + n_reloads ELSE 1 + h

\* the loads in progress
EnCarga == {hilos[h].carga : h \in {x \in Hilos : hilos[x].pc = "load"}}

EnReload == hilos[HiloReload].pc \notin {"nuevo", "done", "error"}

\* reload_data, line 509: _data_service_instance = None
IniciarReload ==
    /\ hilos[HiloReload].pc \in {"nuevo", "done", "error"}
    /\ n_reloads < MaxReloads
    /\ n_reloads' = n_reloads + 1
    /\ previo' = [ds |-> _data_service_instance,
                  engine |-> _recommendation_engine_instance,
                  tablas |-> ds_tablas]
    /\ _data_service_instance' = "None"
    /\ hilos' = [hilos EXCEPT ![HiloReload] = [HiloInicial EXCEPT !.pc = "r510"]]
    /\ UNCHANGED <<_recommendation_engine_instance, ds_tablas, cargas_ok,
                   cargas_fallidas>>
    /\ UNCHANGED <<varsFeed, varsHttp, varsBandit, varsTracking, varsProceso>>

\* reload_data, line 510: _recommendation_engine_instance = None,
\* then the call get_data_service()
Reload510 ==
    /\ hilos[HiloReload].pc = "r510"
    /\ _recommendation_engine_instance' = SinEngine
    /\ hilos' = [hilos EXCEPT ![HiloReload].pc = "gds_check",
                              ![HiloReload].ret = "reload"]
    /\ UNCHANGED <<_data_service_instance, ds_tablas, cargas_ok,
                   cargas_fallidas, previo, n_reloads>>
    /\ UNCHANGED <<varsFeed, varsHttp, varsBandit, varsTracking, varsProceso>>

\* get_data_service: if _data_service_instance is None
GdsCheck(h) ==
    /\ hilos[h].pc = "gds_check"
    /\ hilos' = [hilos EXCEPT ![h].pc =
                     IF _data_service_instance = "None" THEN "gds_new"
                     ELSE "gds_ret"]
    /\ UNCHANGED <<_data_service_instance, _recommendation_engine_instance,
                   ds_tablas, cargas_ok, cargas_fallidas, previo,
                   n_reloads>>
    /\ UNCHANGED <<varsFeed, varsHttp, varsBandit, varsTracking, varsProceso>>

\* _data_service_instance = DataService(MySQLConnection): __new__ returns
\* the existing singleton and __init__ returns at once (_inicializado);
\* the global is assigned before load_all_data() starts
GdsNew(h) ==
    /\ hilos[h].pc = "gds_new"
    /\ Cardinality(cargas_ok \cup cargas_fallidas \cup EnCarga) <= MaxCargas
    /\ _data_service_instance' = "DS"
    /\ hilos' = [hilos EXCEPT ![h].pc = "load", ![h].paso = 1,
                              ![h].carga = CargaDe(h)]
    /\ UNCHANGED <<_recommendation_engine_instance, ds_tablas, cargas_ok,
                   cargas_fallidas, previo, n_reloads>>
    /\ UNCHANGED <<varsFeed, varsHttp, varsBandit, varsTracking, varsProceso>>

\* load_all_data: self.<table> = self._load_<table>(), one table per step
LoadTabla(h) ==
    /\ hilos[h].pc = "load"
    /\ ds_tablas' = [ds_tablas EXCEPT ![Tablas[hilos[h].paso]] = hilos[h].carga]
    /\ IF hilos[h].paso = Len(Tablas)
       THEN /\ cargas_ok' = cargas_ok \cup {hilos[h].carga}
            /\ hilos' = [hilos EXCEPT ![h].pc = "gds_ret", ![h].paso = 0,
                                      ![h].carga = 0]
       ELSE /\ cargas_ok' = cargas_ok
            /\ hilos' = [hilos EXCEPT ![h].paso = @ + 1]
    /\ UNCHANGED <<_data_service_instance, _recommendation_engine_instance,
                   cargas_fallidas, previo, n_reloads>>
    /\ UNCHANGED <<varsFeed, varsHttp, varsBandit, varsTracking, varsProceso>>

\* load_all_data: a load step raises; the except clause closes the
\* connection and re-raises, the exception leaves the handler
LoadFalla(h) ==
    /\ hilos[h].pc = "load"
    /\ Cardinality(cargas_fallidas) < MaxFallos
    /\ cargas_fallidas' = cargas_fallidas \cup {hilos[h].carga}
    /\ hilos' = [hilos EXCEPT ![h] = [HiloInicial EXCEPT !.pc = "error",
                                                          !.status = 500]]
    /\ UNCHANGED <<_data_service_instance, _recommendation_engine_instance,
                   ds_tablas, cargas_ok, previo, n_reloads>>
    /\ UNCHANGED <<varsFeed, varsHttp, varsBandit, varsTracking, varsProceso>>

\* get_data_service: return _data_service_instance
GdsRet(h) ==
    /\ hilos[h].pc = "gds_ret"
    /\ hilos' = [hilos EXCEPT
                   ![h].ds = _data_service_instance,
                   ![h].pc = CASE hilos[h].ret = "reload" -> "gre_check"
                               [] hilos[h].ret = "gre" -> "gre_build"
                               [] OTHER -> "body"]
    /\ UNCHANGED <<_data_service_instance, _recommendation_engine_instance,
                   ds_tablas, cargas_ok, cargas_fallidas, previo,
                   n_reloads>>
    /\ UNCHANGED <<varsFeed, varsHttp, varsBandit, varsTracking, varsProceso>>

\* get_recommendation_engine: if _recommendation_engine_instance is None.
\* It is the first dependency FastAPI resolves for a feed request, so it is
\* also the first step of a request ("nuevo").
GreCheck(h) ==
    /\ \/ hilos[h].pc = "gre_check"
       \/ h # HiloReload /\ hilos[h].pc = "nuevo"
    /\ hilos' = [hilos EXCEPT
                   ![h].pc = IF _recommendation_engine_instance = SinEngine
                             THEN "gds_check" ELSE "gre_ret",
                   ![h].ret = IF _recommendation_engine_instance = SinEngine
                              THEN "gre" ELSE @]
    /\ UNCHANGED <<_data_service_instance, _recommendation_engine_instance,
                   ds_tablas, cargas_ok, cargas_fallidas, previo,
                   n_reloads>>
    /\ UNCHANGED <<varsFeed, varsHttp, varsBandit, varsTracking, varsProceso>>

\* _recommendation_engine_instance = RecommendationEngine(data_service)
GreBuild(h) ==
    /\ hilos[h].pc = "gre_build"
    /\ IF hilos[h].ds = "None"
       THEN /\ hilos' = [hilos EXCEPT ![h] = [HiloInicial EXCEPT
                                                 !.pc = "error",
                                                 !.status = 500]]
            /\ UNCHANGED _recommendation_engine_instance
       ELSE /\ _recommendation_engine_instance' =
                   [videos |-> ds_tablas["videos"],
                    interactions |-> ds_tablas["interactions"],
                    flows |-> ds_tablas["flows"],
                    connections |-> ds_tablas["connections"]]
            /\ hilos' = [hilos EXCEPT ![h].pc = "gre_ret"]
    /\ UNCHANGED <<_data_service_instance, ds_tablas, cargas_ok,
                   cargas_fallidas, previo, n_reloads>>
    /\ UNCHANGED <<varsFeed, varsHttp, varsBandit, varsTracking, varsProceso>>

\* get_recommendation_engine: return _recommendation_engine_instance.
\* For reload_data this is the last call: statusCode 200.  For a feed
\* request the data_service dependency is resolved next.
GreRet(h) ==
    /\ hilos[h].pc = "gre_ret"
    /\ hilos' = [hilos EXCEPT
                   ![h] = IF h = HiloReload
                          THEN [HiloInicial EXCEPT !.pc = "done",
                                                   !.status = 200]
                          ELSE [@ EXCEPT
                                  !.eng = _recommendation_engine_instance,
                                  !.ds = "None",
                                  !.pc = "gds_check",
                                  !.ret = "dep"]]
    /\ UNCHANGED <<_data_service_instance, _recommendation_engine_instance,
                   ds_tablas, cargas_ok, cargas_fallidas, previo,
                   n_reloads>>
    /\ UNCHANGED <<varsFeed, varsHttp, varsBandit, varsTracking, varsProceso>>

\* the body of total / discover / flow: the engine selects the ids, the
\* items are built from the tables of data_service
CuerpoPeticion(p) ==
    /\ hilos[p].pc = "body"
    /\ ~EnReload
    /\ IF hilos[p].eng = SinEngine \/ hilos[p].ds = "None"
       THEN hilos' = [hilos EXCEPT ![p] = [HiloInicial EXCEPT
                                              !.pc = "error",
                                              !.status = 500]]
       ELSE hilos' = [hilos EXCEPT ![p] = [HiloInicial EXCEPT
                                              !.pc = "done",
                                              !.status = 200,
                                              !.resp = [engine |-> hilos[p].eng,
                                                        tablas |-> ds_tablas]]]
    /\ UNCHANGED <<_data_service_instance, _recommendation_engine_instance,
                   ds_tablas, cargas_ok, cargas_fallidas, previo,
                   n_reloads>>
    /\ UNCHANGED <<varsFeed, varsHttp, varsBandit, varsTracking, varsProceso>>

NextReload ==
    \/ IniciarReload
    \/ Reload510
    \/ \E h \in Hilos : GdsCheck(h)
    \/ \E h \in Hilos : GdsNew(h)
    \/ \E h \in Hilos : LoadTabla(h)
    \/ \E h \in Hilos : LoadFalla(h)
    \/ \E h \in Hilos : GdsRet(h)
    \/ \E h \in Hilos : GreCheck(h)
    \/ \E h \in Hilos : GreBuild(h)
    \/ \E h \in Hilos : GreRet(h)
    \/ \E p \in Peticion : CuerpoPeticion(p)

\* one fixed catalog: the reload model does not look inside the tables
InitCatalogoFijo ==
    /\ videos_df = CatalogoVideos(0, 1, 0, 0, 0)
    /\ flows_df = CatalogoFlows(0, 0, 1)
    /\ lista_negra = {}
    /\ vistos = {}
    /\ videos_excluidos = {}
    /\ incluir_fw = TRUE
    /\ semilla = 0
    /\ InitLoop

InitSpecReload ==
    /\ InitCatalogoFijo /\ InitReload /\ InitHttp /\ InitBandit
    /\ InitTracking /\ InitProceso

SpecReload == InitSpecReload /\ [][NextReload]_vars

(***************************************************************************)
(* Claims about reload (checked under SpecReload)                          *)
(***************************************************************************)
\* the start-up load reads catalog C1; the source then holds C2, whose ids
\* are disjoint from those of C1
CatalogoDe(c) == IF c = 1 THEN "C1" ELSE "C2"

Valores(f) == {f[x] : x \in DOMAIN f}

TablasDeEngine(e) == {e.videos, e.interactions, e.flows, e.connections}

\* the catalogs whose ids a response references: an id selected by the
\* engine reaches the response only if data_service has a row for it
CatalogosReferidos(r) ==
    (IF CatalogoDe(r.engine.videos) = CatalogoDe(r.tablas["videos"])
     THEN {CatalogoDe(r.engine.videos)} ELSE {})
    \cup
    (IF CatalogoDe(r.engine.flows) = CatalogoDe(r.tablas["flows"])
     THEN {CatalogoDe(r.engine.flows)} ELSE {})

Respondidas == {p \in Peticion : hilos[p].status = 200}

\* C3: reload atomicity.  When no load fails, every feed response is built
\* from one snapshot: the tables of the engine that selected the ids and the
\* tables of the data service used to build the items all come from the same
\* load, and the response never references ids of both catalogs.
C3_ReloadAtomico ==
    cargas_fallidas = {} =>
        \A p \in Respondidas :
            /\ Cardinality(TablasDeEngine(hilos[p].resp.engine)
                             \cup Valores(hilos[p].resp.tablas)) = 1
            /\ Cardinality(CatalogosReferidos(hilos[p].resp)) <= 1

\* C4: a failed reload keeps the old snapshot.  Once reload_data has failed
\* (and an engine was installed when it started), the data service and the
\* engine installed before the reload are still installed, the tables are
\* the ones of before, and the endpoint does not report 200.
C4_ReloadFallidoConservaSnapshot ==
    (hilos[HiloReload].pc = "error" /\ previo.engine # SinEngine) =>
        /\ _data_service_instance = previo.ds
        /\ _recommendation_engine_instance = previo.engine
        /\ ds_tablas = previo.tablas
        /\ hilos[HiloReload].status # 200

\* C5: no partial snapshot is exposed.  No installed engine and no served
\* response uses a table written by a load that failed part-way.
C5_SinSnapshotParcial ==
    /\ TablasDeEngine(_recommendation_engine_instance) \cap cargas_fallidas = {}
    /\ \A p \in Respondidas :
          (TablasDeEngine(hilos[p].resp.engine)
              \cup Valores(hilos[p].resp.tablas)) \cap cargas_fallidas = {}

(***************************************************************************)
(* Claims about generar_scroll_infinito (checked under Spec)               *)
(***************************************************************************)
CreadorDe(e) ==
    IF e.type = "challenge" THEN flows_df[e.video_id].user_id
    ELSE videos_df[e.video_id].user_id

Disponibles == VideoIds \ IdsExcluir

\* every un-excluded item has its own creator
CreadoresNoDegenerados ==
    \A v, w \in Disponibles :
        v # w => videos_df[v].user_id # videos_df[w].user_id

\* C1: feed length.  With at least 24 un-excluded catalog items and a
\* non-degenerate creator distribution the returned feed has exactly 24
\* entries.
C1_LongitudFeed ==
    (/\ pc = "done"
     /\ Cardinality(Disponibles) >= 24
     /\ CreadoresNoDegenerados)
        => Len(feed) = 24

\* C2: creator sliding-window diversity.  Any two feed entries less than 12
\* positions apart (i.e. inside some window p..p+11) have distinct creators.
C2_VentanaDeslizante ==
    \A i, j \in 1..Len(feed) :
        (i < j /\ j - i < 12) => CreadorDe(feed[i]) # CreadorDe(feed[j])

\* C6: exclusion honored in the mixed feed.  No feed entry has an id that is
\* in videos_excluidos or among the items the user has interacted with.
C6_ExclusionRespetada ==
    \A i \in 1..Len(feed) :
        feed[i].video_id \notin (videos_excluidos \cup vistos)

\* a finished feed with resumes and flows, built while both catalog videos
\* and catalog flows were excluded by the caller and by the history
C6_Witness ==
    /\ pc = "done"
    /\ Len(feed) >= 12
    /\ \E i \in 1..Len(feed) : feed[i].type = "challenge"
    /\ videos_excluidos \cap VideoIds # {}
    /\ videos_excluidos \cap FlowIds # {}
    /\ vistos \cap VideoIds # {}

\* C7 as stated: no feed entry whose slot type is AU or NU has a
\* blacklisted video URL.
C7_ListaNegraPorSlot ==
    \A i \in 1..Len(feed) :
        feed[i].patron_type \in {"AU", "NU"}
            => feed[i].video_url \notin lista_negra

\* C7 amended: no feed entry taken from the AU pool or from the NU pool has
\* a blacklisted video URL (an AU or NU slot filled by the EXPLORE fallback
\* is not rechecked).
C7_ListaNegraPoolPrimario ==
    \A i \in 1..Len(feed) :
        fuente[i] \in {"AU", "NU"} => feed[i].video_url \notin lista_negra

\* the AU walk and the NU walk both went past a blacklisted item and both
\* pools contributed entries to the feed
C7_Witness ==
    /\ \E j \in 1..idx_au : _video_en_lista_negra(pool_au[j])
    /\ \E j \in 1..idx_nu : _video_en_lista_negra(pool_nu[j])
    /\ \E i \in 1..Len(feed) : fuente[i] = "AU"
    /\ \E i \in 1..Len(feed) : fuente[i] = "NU"

TiposFeed == [i \in 1..Len(feed) |-> feed[i].patron_type]

TiposVisitasLlenas ==
    LET llenas == SelectSeq(visitas, LAMBDA v : v[2])
    IN [i \in 1..Len(llenas) |-> llenas[i][1]]

PatronRespetado ==
    /\ \A i \in 1..Len(visitas) :
          visitas[i][1] = PATRON_FEED[((i - 1) % 6) + 1]
    /\ TiposFeed = TiposVisitasLlenas
    /\ Len(feed) <= 24

\* C8 as stated: the slot types of the feed are the template repeated 4
\* times with the unfilled slots removed; at most 4 cycles are visited.
C8_PatronCuatroCiclos ==
    /\ PatronRespetado
    /\ Len(visitas) <= 4 * 6

\* C8 amended: the slot types of the feed are the template repeated 5 times
\* (24 // 6 + 1 cycles) with the unfilled slots removed, cut at 24 entries;
\* the loop ends only with 24 entries or after the 30 slots of 5 cycles.
C8_PatronCincoCiclos ==
    /\ PatronRespetado
    /\ Len(visitas) <= 5 * 6
    /\ pc = "done" => (Len(feed) = 24 \/ Len(visitas) = 5 * 6)

\* a feed of 24 entries that needed the fifth cycle to make up for slots
\* that found no candidate
C8_Witness ==
    /\ pc = "done"
    /\ Len(feed) = 24
    /\ Len(visitas) > 4 * 6
    /\ \E i \in 1..Len(visitas) : ~visitas[i][2]

(***************************************************************************)
(* api/endpoints.py: the handlers total, discover and flow, with           *)
(* parse_excluded_ids and RecommendationEngine.generar_feed_flows_only     *)
(***************************************************************************)
\* [int(x) for x in excluded_ids.split(',') if x.strip().isdigit()]
ParseCadena(items) ==
    LET pasan == SelectSeq(items,
                     LAMBDA e : e.kind \in {"digitos", "superindice"})
    IN IF \E i \in 1..Len(pasan) : pasan[i].kind = "superindice"
       THEN [ok |-> FALSE, ids |-> <<>>]
       ELSE [ok |-> TRUE, ids |-> [i \in 1..Len(pasan) |-> pasan[i].n]]

\* [int(x) for x in excluded_ids if isinstance(x, (int, str))]
ParseLista(items) ==
    LET pasan == SelectSeq(items, LAMBDA e : e.kind # "otro")
    IN IF \E i \in 1..Len(pasan) : pasan[i].kind \in {"texto", "superindice"}
       THEN [ok |-> FALSE, ids |-> <<>>]
       ELSE [ok |-> TRUE, ids |-> [i \in 1..Len(pasan) |-> pasan[i].n]]

\* ok = FALSE stands for the ValueError that int() raises
parse_excluded_ids(excluded_ids) ==
    CASE excluded_ids.tipo = "null" -> [ok |-> TRUE, ids |-> <<>>]
      [] excluded_ids.tipo = "str" /\ excluded_ids.items # <<>> ->
             ParseCadena(excluded_ids.items)
      [] excluded_ids.tipo = "list" -> ParseLista(excluded_ids.items)
      [] OTHER -> [ok |-> TRUE, ids |-> <<>>]

\* data.get(clave, por_defecto)
Get(d, clave, por_defecto) ==
    IF d[clave].tipo = "ausente" THEN por_defecto ELSE d[clave]

\* mutant: the activity log is never consulted
SinHistorialDeFlows(falla) == {}

\* _obtener_flows_vistos_usuario: the rows of activity_log, or set() when
\* the connection or the query raises
_obtener_flows_vistos_usuario(falla) ==
    IF falla THEN {} ELSE activity_log

_seleccionar_flows_para_usuario(n, excluded_ids, falla, k) ==
    IF FlowIds = {} THEN <<>>
    ELSE LET flows_vistos == _obtener_flows_vistos_usuario(falla)
             flows_a_excluir == flows_vistos \cup Range(excluded_ids)
             sin_lista_negra ==
                 {f \in FlowIds : flows_df[f].video \notin lista_negra}
             restantes == sin_lista_negra \ flows_a_excluir
             candidatos == IF restantes = {} THEN sin_lista_negra
                           ELSE restantes
         IN Take(Rank(candidatos, TopeIds, k), n)

\* mutant: 'position': idx, the index of enumerate itself
FlowsOnlyPosicionDesdeCero(n_flows, excluded_ids, falla, k) ==
    LET flow_ids == _seleccionar_flows_para_usuario(n_flows, excluded_ids,
                                                    falla, k)
        con_fila == SelectSeq([idx \in 1..Len(flow_ids) |-> idx],
                              LAMBDA idx : flow_ids[idx] \in FlowIds)
    IN [j \in 1..Len(con_fila) |->
           [position |-> con_fila[j] - 1,
            video_id |-> flow_ids[con_fila[j]],
            type |-> "challenge",
            patron_type |-> "FW",
            video_url |-> flows_df[flow_ids[con_fila[j]]].video]]

\* for idx, flow_id in enumerate(flow_ids): an id without a row in flows_df
\* is skipped; 'position': idx + 1 (the model counts idx from 1)
generar_feed_flows_only(n_flows, excluded_ids, falla, k) ==
    LET flow_ids == _seleccionar_flows_para_usuario(n_flows, excluded_ids,
                                                    falla, k)
        con_fila == SelectSeq([idx \in 1..Len(flow_ids) |-> idx],
                              LAMBDA idx : flow_ids[idx] \in FlowIds)
    IN [j \in 1..Len(con_fila) |->
           [position |-> con_fila[j],
            video_id |-> flow_ids[con_fila[j]],
            type |-> "challenge",
            patron_type |-> "FW",
            video_url |-> flows_df[flow_ids[con_fila[j]]].video]]

\* str(video_id) of the items whose row data_service still has
IdsDeRespuesta(f, con_challenges) ==
    LET items == SelectSeq(f, LAMBDA e :
                     IF e.type = "challenge"
                     THEN con_challenges /\ e.video_id \in FlowIds
                     ELSE e.video_id \in VideoIds)
    IN [i \in 1..Len(items) |-> Elem("digitos", items[i].video_id)]

\* the raw values a client sends under an exclusion key
ValoresCrudos ==
    {Lista(<<Elem("int", 2), Elem("int", 102)>>),
     Lista(<<Elem("digitos", 3), Elem("otro", 0), Elem("int", 103)>>),
     Cadena(<<Elem("digitos", 4), Elem("texto", 0), Elem("digitos", 101)>>),
     Cadena(<<>>),
     Nulo,
     Lista(<<Elem("int", 5), Elem("texto", 0)>>),
     Cadena(<<Elem("superindice", 2)>>)}

\* request bodies with at most two of the three exclusion keys
Cuerpos ==
    {d \in [Claves -> ValoresCrudos \cup {Ausente}] :
        \E c \in Claves : d[c] = Ausente}

\* the Redis commands of one tracking call, in order: track_feed_request
\* issues lpush, expire; track_video_view issues lpush, expire, sadd, expire
COMANDOS_FEED_REQUEST == 2
COMANDOS_VIDEO_VIEW == 4

\* ActivityTracker.track_feed_request: what it returns (ret), whether its
\* lpush reached the list (push) and whether an exception leaves it (raises)
track_feed_request(cliente, falla) ==
    IF cliente = "None"
    THEN [ret |-> FALSE, push |-> FALSE, raises |-> FALSE]
    ELSE IF falla \in 1..COMANDOS_FEED_REQUEST
         THEN [ret |-> FALSE, push |-> falla > 1, raises |-> FALSE]
         ELSE [ret |-> TRUE, push |-> TRUE, raises |-> FALSE]

\* track_video_view without its try / except
VideoViewSinCapturar(cliente, falla) ==
    IF cliente = "None"
    THEN [ret |-> FALSE, push |-> FALSE, raises |-> FALSE]
    ELSE IF falla \in 1..COMANDOS_VIDEO_VIEW
         THEN [ret |-> FALSE, push |-> falla > 1, raises |-> TRUE]
         ELSE [ret |-> TRUE, push |-> TRUE, raises |-> FALSE]

\* ActivityTracker.track_video_view
track_video_view(cliente, falla) ==
    IF cliente = "None"
    THEN [ret |-> FALSE, push |-> FALSE, raises |-> FALSE]
    ELSE IF falla \in 1..COMANDOS_VIDEO_VIEW
         THEN [ret |-> FALSE, push |-> falla > 1, raises |-> FALSE]
         ELSE [ret |-> TRUE, push |-> TRUE, raises |-> FALSE]

\* LPUSH of k new events: the newest is at the head of the list
Lpush(lista, desde, k) == [i \in 1..k |-> desde + k + 1 - i] \o lista

\* MySQLConnection.connect(): a connection leaves the pool
Conectar(n) == n + 1

\* MySQLConnection.close(): the connection goes back to the pool
Cerrar(n) == n - 1

\* the connections outside the pool after _obtener_flows_vistos_usuario:
\* connect(), execute_query() and close() are inside one try whose except
\* returns set(); the exception comes from connect() (nothing was taken) or
\* from execute_query() (en_consulta)
FlowsVistosConexiones(n, falla, en_consulta) ==
    IF ~falla THEN Cerrar(Conectar(n))
    ELSE IF en_consulta THEN Conectar(n)
    ELSE n

\* the request arrives: data = await request.json()
RecibirPeticion ==
    /\ pc_http = "espera"
    /\ n_eventos < MaxEventosHttp
    /\ conexiones < MaxConexiones
    /\ \E ep \in {"total", "discover", "flow"}, d \in Cuerpos :
          /\ endpoint' = ep
          /\ data' = d
    /\ db_falla' = FALSE
    /\ excluidos_motor' = <<>>
    /\ feed_motor' = <<>>
    /\ respuesta' = SinRespuestaHttp
    /\ rastreo' = <<>>
    /\ pc_http' = "recibida"
    /\ UNCHANGED <<activity_log, varsFeed, varsReload, varsBandit,
                   redis_client, redis_falla, user_activity, insertados,
                   n_eventos, hilo_flush, varsProceso>>

\* an exception that leaves the handler: FastAPI answers 500
Error500 ==
    /\ respuesta' = [statusCode |-> 500, ids |-> <<>>]
    /\ excluidos_motor' = <<>>
    /\ feed_motor' = <<>>

\* parse_excluded_ids raised: no tracking call was made
SinRastreo == UNCHANGED <<user_activity, n_eventos, rastreo>>

\* the rest of a handler after parse_excluded_ids: track_feed_request, the
\* engine call that returns f, one track_video_view for each of the
\* n_vistas tracked items, and the response
Atender(excluidos, f, con_fw, n_vistas) ==
    LET peticion == track_feed_request(redis_client, redis_falla)
        vista == track_video_view(redis_client, redis_falla)
        n_push == (IF peticion.push THEN 1 ELSE 0)
                  + (IF vista.push THEN n_vistas ELSE 0)
    IN IF peticion.raises
       THEN Error500 /\ SinRastreo
       ELSE IF vista.raises /\ n_vistas > 0
       THEN /\ Error500
            /\ LET k == (IF peticion.push THEN 1 ELSE 0)
                         + (IF vista.push THEN 1 ELSE 0)
               IN /\ user_activity' = Lpush(user_activity, n_eventos, k)
                  /\ n_eventos' = n_eventos + k
            /\ rastreo' = <<peticion.ret>>
       ELSE /\ excluidos_motor' = excluidos
            /\ feed_motor' = f
            /\ respuesta' = [statusCode |-> 200,
                             ids |-> IdsDeRespuesta(f, con_fw)]
            /\ user_activity' = Lpush(user_activity, n_eventos, n_push)
            /\ n_eventos' = n_eventos + n_push
            /\ rastreo' = <<peticion.ret>>
                           \o [i \in 1..n_vistas |-> vista.ret]

\* POST /search/total
total ==
    /\ pc_http = "recibida" /\ endpoint = "total"
    /\ LET excluded_ids_raw ==
               Get(data, "excluded_ids",
                   Get(data, "LAST_IDS",
                       Get(data, "videos_excluidos", Lista(<<>>))))
           excluded_ids == parse_excluded_ids(excluded_ids_raw)
       IN IF ~excluded_ids.ok THEN Error500 /\ SinRastreo
          ELSE LET f == generar_scroll_infinito(Range(excluded_ids.ids),
                                                TRUE, semilla)
               IN Atender(excluded_ids.ids, f, TRUE, Len(f))
    /\ pc_http' = "respondida"
    /\ UNCHANGED <<endpoint, data, activity_log, db_falla, varsFeed,
                   varsReload, varsBandit, redis_client, redis_falla,
                   insertados, hilo_flush, varsProceso>>

\* POST /search/discover
discover ==
    /\ pc_http = "recibida" /\ endpoint = "discover"
    /\ LET last_ids_raw ==
               Get(data, "LAST_IDS",
                   Get(data, "videos_excluidos", Lista(<<>>)))
           last_ids == parse_excluded_ids(last_ids_raw)
       IN IF ~last_ids.ok THEN Error500 /\ SinRastreo
          ELSE LET f == generar_scroll_infinito(Range(last_ids.ids),
                                                FALSE, semilla)
               IN Atender(last_ids.ids, f, FALSE,
                          Len(IdsDeRespuesta(f, FALSE)))
    /\ pc_http' = "respondida"
    /\ UNCHANGED <<endpoint, data, activity_log, db_falla, varsFeed,
                   varsReload, varsBandit, redis_client, redis_falla,
                   insertados, hilo_flush, varsProceso>>

\* POST /search/flow
flow ==
    /\ pc_http = "recibida" /\ endpoint = "flow"
    /\ \E falla \in BOOLEAN, en_consulta \in BOOLEAN :
          /\ db_falla' = falla
          /\ conexiones' =
                 IF parse_excluded_ids(
                        Get(data, "videos_excluidos",
                            Get(data, "LAST_IDS", Lista(<<>>)))).ok
                 THEN FlowsVistosConexiones(conexiones, falla, en_consulta)
                 ELSE conexiones
          /\ LET last_ids_raw ==
                     Get(data, "videos_excluidos",
                         Get(data, "LAST_IDS", Lista(<<>>)))
                 last_ids == parse_excluded_ids(last_ids_raw)
             IN IF ~last_ids.ok THEN Error500 /\ SinRastreo
                ELSE LET f == generar_feed_flows_only(N_FLOWS_ONLY,
                                                      last_ids.ids, falla,
                                                      semilla)
                     IN Atender(last_ids.ids, f, TRUE, Len(f))
    /\ pc_http' = "respondida"
    /\ UNCHANGED <<endpoint, data, activity_log, varsFeed, varsReload,
                   varsBandit, redis_client, redis_falla, insertados,
                   hilo_flush, bandits, ultima_peticion>>

\* the response is written; the worker waits for the next request
EnviarRespuesta ==
    /\ pc_http = "respondida"
    /\ endpoint' = "-"
    /\ data' = SinCuerpo
    /\ db_falla' = FALSE
    /\ excluidos_motor' = <<>>
    /\ feed_motor' = <<>>
    /\ respuesta' = SinRespuestaHttp
    /\ pc_http' = "espera"
    /\ UNCHANGED <<activity_log, varsFeed, varsReload, varsBandit,
                   varsTracking, varsProceso>>

NextHttp ==
    \/ RecibirPeticion
    \/ total
    \/ discover
    \/ flow
    \/ EnviarRespuesta

\* the catalogs behind the HTTP surface: 30 resumes with ids 1..30 and
\* flows with ids from 101 on
CatalogosHttp ==
    {<<0, {}>>, <<3, {}>>, <<3, {101}>>,
     <<MaxFlowsHttp, {}>>, <<MaxFlowsHttp, {101}>>}

InitCatalogoHttp ==
    \E cat \in CatalogosHttp, negra \in {{}, {1105}} :
        /\ videos_df = CatalogoVideos(30, 30, 15, 3, 2)
        /\ flows_df = CatalogoFlows(cat[1], 100, 30)
        /\ lista_negra = negra
        /\ activity_log = cat[2]
        /\ vistos = {1}
        /\ videos_excluidos = {}
        /\ incluir_fw = TRUE
        /\ semilla \in 0..MaxSemilla
        /\ InitLoop

\* ActivityTracker.__init__: _connect_redis leaves a client or None; a
\* client may later raise on a command
InitTrackingHttp ==
    /\ \E c \in {"conectado", "None"}, k \in 0..COMANDOS_VIDEO_VIEW :
          /\ redis_client = c
          /\ redis_falla = IF c = "None" THEN 0 ELSE k
    /\ InitCache

InitSpecHttp ==
    /\ InitCatalogoHttp
    /\ InitReload
    /\ InitPeticionHttp
    /\ InitBandit
    /\ InitTrackingHttp
    /\ InitProceso

SpecHttp == InitSpecHttp /\ [][NextHttp]_vars

(***************************************************************************)
(* Claims about the flows-only feed and the HTTP surface (under SpecHttp)  *)
(***************************************************************************)
RespondioFlow ==
    pc_http = "respondida" /\ endpoint = "flow" /\ respuesta.statusCode = 200

IdsDelFeed == {feed_motor[i].video_id : i \in 1..Len(feed_motor)}

IdsEnviados(valor) ==
    {valor.items[i].n :
        i \in {j \in 1..Len(valor.items) :
                  valor.items[j].kind \in {"int", "digitos"}}}

IdsRespondidos == {respuesta.ids[i].n : i \in 1..Len(respuesta.ids)}

\* C10: exclusion keys at the HTTP surface.  For /search/total,
\* /search/discover and /search/flow, the ids sent under any of the keys
\* excluded_ids, LAST_IDS, videos_excluidos are handed to the engine as the
\* exclusion list and do not appear among the ids of the response.
C10_ClavesDeExclusion ==
    (pc_http = "respondida" /\ respuesta.statusCode = 200) =>
        \A c \in Claves :
            /\ IdsEnviados(data[c]) \subseteq Range(excluidos_motor)
            /\ IdsEnviados(data[c]) \cap IdsRespondidos = {}

\* C11: input errors never fail the request.  parse_excluded_ids returns a
\* list of ints without raising for every raw value, an unparseable value
\* counts as the empty list, and the feed handler answers statusCode 200.
C11_EntradaNuncaFalla ==
    pc_http = "respondida" =>
        /\ \A c \in Claves : parse_excluded_ids(data[c]).ok
        /\ respuesta.statusCode = 200

\* The same loop with the same acceptance tests, except that every slot
\* walks its pools from the first item again instead of from the cursor:
\* a candidate that was passed over while its creator was in the window is
\* considered again once the window has been emptied.
RECURSIVE EnsamblarSinDescartar(_, _, _)
EnsamblarSinDescartar(s, pools, v) ==
    IF v >= Ciclos * Len(PATRON_FEED) \/ Len(s.feed) >= VIDEOS_POR_RESPUESTA
    THEN s
    ELSE LET desde_cero == [s EXCEPT !.idx_vmp = 0, !.idx_nu = 0,
                                     !.idx_au = 0, !.idx_flow = 0,
                                     !.idx_explore = 0]
         IN EnsamblarSinDescartar(
                Iterar(desde_cero, pools,
                       PATRON_FEED[(v % Len(PATRON_FEED)) + 1]),
                pools, v + 1)

\* C12: maximal feed.  Whenever generar_scroll_infinito returns fewer than
\* 24 entries, no longer feed fills the same slot template from the same
\* pools under exclusion, item uniqueness, the creator window and the
\* skill-novelty rule; in particular the feed built without discarding the
\* passed-over candidates is not longer.
C12_FeedMaximo ==
    (pc = "done" /\ Len(feed) < 24) =>
        Len(EnsamblarSinDescartar(EstadoInicial, Pools, 0).feed) <= Len(feed)

\* C13: no repeats within a request.  All video_id values of the feed are
\* pairwise distinct, also for an id that sits in both the VMP and the NU
\* pool and across resume and flow entries.
C13_SinRepetidos ==
    \A i, j \in 1..Len(feed) :
        i # j => feed[i].video_id # feed[j].video_id

\* a finished feed with resume and flow entries, built from a catalog in
\* which flow ids and resume ids coincide, that holds an id offered by both
\* the VMP pool and the NU pool
C13_Witness ==
    /\ pc = "done"
    /\ FlowIds \cap VideoIds # {}
    /\ \E i \in 1..Len(feed) : feed[i].type = "challenge"
    /\ \E i \in 1..Len(feed) :
          /\ feed[i].type = "resume"
          /\ feed[i].video_id \in Range(pool_vmp) \cap Range(pool_nu)

(***************************************************************************)
(* BanditContextualAdaptativo with n_features = 1: A, b and the context    *)
(* are numbers, A_inv and theta are rationals.  Rewards and contexts are   *)
(* drawn from small sets of integers.                                      *)
(***************************************************************************)
\* np.linalg.inv(self.A + RIDGE_REGULARIZATION * np.identity(1))
Inversa(a) == Frac(RIDGE_DEN, RIDGE_DEN * a + 1)

\* A_inv.dot(b) and contexto.dot(theta)
Escalar(p, k) == Frac(p.num * k, p.den)

Ultimos(h, n) == SubSeq(h, Len(h) - n + 1, Len(h))

\* mutant: the trim keeps the oldest entries
RecortarAntiguos(h) ==
    IF Len(h) > MAX_HISTORY_SIZE THEN SubSeq(h, 1, HISTORY_TRIM_SIZE) ELSE h

\* if len(historial) > MAX_HISTORY_SIZE: historial[-HISTORY_TRIM_SIZE:]
Recortar(h) ==
    IF Len(h) > MAX_HISTORY_SIZE THEN Ultimos(h, HISTORY_TRIM_SIZE) ELSE h

Contextos == {1, 2}
Recompensas == {1, 5}

\* the arguments of the n-th call: free at first, then a null context with
\* a reward that depends on n
EntradasDe(n) ==
    IF n < MaxLibres THEN Contextos \X Recompensas
    ELSE {<<0, (n % 3) + 1>>}

\* actualizar(contexto, recompensa), run from its first to its last line
actualizar(x, r) ==
    /\ hilo_act.pc = "fuera"
    /\ LET n == Len(registro) + 1
           hr == Append(historial_recompensas, r)
           hc == Append(historial_contextos, x)
       IN /\ A' = A + x * x
          /\ b' = b + r * x
          /\ A_inv' = Inversa(A')
          /\ historial_recompensas' = Recortar(hr)
          /\ historial_contextos' =
                 IF Len(hr) > MAX_HISTORY_SIZE
                 THEN Ultimos(hc, HISTORY_TRIM_SIZE) ELSE hc
          /\ registro' = Append(registro, <<x, r>>)
          /\ ultima' = [x |-> x, r |-> r,
                        antes |-> Escalar(Escalar(A_inv, b), x),
                        despues |-> Escalar(Escalar(A_inv', b'), x)]
          /\ version' = [A |-> n, b |-> n, A_inv |-> n]
    /\ UNCHANGED <<theta, hilo_act, hilo_sel>>
    /\ UNCHANGED <<varsFeed, varsReload, varsHttp, varsTracking, varsProceso>>

Actualizar ==
    /\ Len(registro) < MaxActualizaciones
    /\ \E e \in EntradasDe(Len(registro)) : actualizar(e[1], e[2])

\* seleccionar_lote(contextos), run from its first to its last line
seleccionar_lote ==
    /\ hilo_sel.pc = "fuera"
    /\ theta' = Escalar(A_inv, b)
    /\ UNCHANGED <<A, b, A_inv, historial_recompensas, historial_contextos,
                   registro, ultima, version, hilo_act, hilo_sel>>
    /\ UNCHANGED <<varsFeed, varsReload, varsHttp, varsTracking, varsProceso>>

NextBandit ==
    \/ Actualizar
    \/ seleccionar_lote

InitSpecBandit ==
    /\ InitCatalogoFijo /\ InitReload /\ InitHttp /\ InitBandit
    /\ InitTracking /\ InitProceso

SpecBandit == InitSpecBandit /\ [][NextBandit]_vars

\* C14: bandit history bound.  After any sequence of actualizar calls the
\* reward history and the context history have the same length, at most
\* 1000, and hold the most recent calls; the call that would make the length
\* 1001 leaves exactly the 500 most recent pairs, the newest included.
C14_HistorialAcotado ==
    LET n == Len(historial_recompensas)
    IN /\ Len(historial_contextos) = n
       /\ n <= 1000
       /\ n <= Len(registro)
       /\ \A i \in 1..n :
             <<historial_contextos[i], historial_recompensas[i]>>
                 = registro[Len(registro) - n + i]
       /\ Len(registro) = 1001 => n = 500

\* the history right after the 1001st call
C14_Witness ==
    /\ Len(registro) = 1001
    /\ Len(historial_recompensas) = 500
    /\ historial_recompensas[500] = registro[1001][2]

\* C15: bandit monotonicity.  After actualizar(x, r) with r > 0 the
\* predicted score x . theta (theta = A_inv . b) at x is greater than or
\* equal to its value before the call.
C15_Monotonia ==
    (Len(registro) > 0 /\ ultima.r > 0) =>
        FracLeq(ultima.antes, ultima.despues)

(***************************************************************************)
(* The same bandit used from two threads: one inside actualizar, one       *)
(* inside seleccionar_lote.  Neither method takes a lock, so the threads   *)
(* interleave statement by statement.                                      *)
(***************************************************************************)
varsHistorial == <<historial_recompensas, historial_contextos>>

\* a thread calls actualizar(x, r)
ActEntrar ==
    /\ hilo_act.pc = "fuera"
    /\ Len(registro) < MaxActualizacionesHilos
    /\ \E x \in Contextos, r \in Recompensas :
          /\ hilo_act' = [pc |-> "A", x |-> x, r |-> r,
                          n |-> Len(registro) + 1]
          /\ registro' = Append(registro, <<x, r>>)
    /\ UNCHANGED <<A, b, A_inv, theta, varsHistorial, ultima, version,
                   hilo_sel>>
    /\ UNCHANGED <<varsFeed, varsReload, varsHttp, varsTracking, varsProceso>>

\* self.A += np.outer(contexto, contexto)
ActA ==
    /\ hilo_act.pc = "A"
    /\ A' = A + hilo_act.x * hilo_act.x
    /\ version' = [version EXCEPT !.A = hilo_act.n]
    /\ hilo_act' = [hilo_act EXCEPT !.pc = "b"]
    /\ UNCHANGED <<b, A_inv, theta, varsHistorial, registro, ultima,
                   hilo_sel>>
    /\ UNCHANGED <<varsFeed, varsReload, varsHttp, varsTracking, varsProceso>>

\* self.b += recompensa * contexto
ActB ==
    /\ hilo_act.pc = "b"
    /\ b' = b + hilo_act.r * hilo_act.x
    /\ version' = [version EXCEPT !.b = hilo_act.n]
    /\ hilo_act' = [hilo_act EXCEPT !.pc = "A_inv"]
    /\ UNCHANGED <<A, A_inv, theta, varsHistorial, registro, ultima,
                   hilo_sel>>
    /\ UNCHANGED <<varsFeed, varsReload, varsHttp, varsTracking, varsProceso>>

\* self.A_inv = np.linalg.inv(self.A + RIDGE_REGULARIZATION * I)
ActAinv ==
    /\ hilo_act.pc = "A_inv"
    /\ A_inv' = Inversa(A)
    /\ version' = [version EXCEPT !.A_inv = version.A]
    /\ hilo_act' = [hilo_act EXCEPT !.pc = "historial"]
    /\ UNCHANGED <<A, b, theta, varsHistorial, registro, ultima, hilo_sel>>
    /\ UNCHANGED <<varsFeed, varsReload, varsHttp, varsTracking, varsProceso>>

\* the two appends, the trim and the return
ActHistorial ==
    /\ hilo_act.pc = "historial"
    /\ LET hr == Append(historial_recompensas, hilo_act.r)
           hc == Append(historial_contextos, hilo_act.x)
       IN /\ historial_recompensas' = Recortar(hr)
          /\ historial_contextos' =
                 IF Len(hr) > MAX_HISTORY_SIZE
                 THEN Ultimos(hc, HISTORY_TRIM_SIZE) ELSE hc
    /\ hilo_act' = HiloFuera
    /\ UNCHANGED <<A, b, A_inv, theta, registro, ultima, version, hilo_sel>>
    /\ UNCHANGED <<varsFeed, varsReload, varsHttp, varsTracking, varsProceso>>

\* a thread calls seleccionar_lote(contextos)
SelEntrar ==
    /\ hilo_sel.pc = "fuera"
    /\ hilo_sel' = [SinLectura EXCEPT !.pc = "theta"]
    /\ UNCHANGED <<A, b, A_inv, theta, varsHistorial, registro, ultima,
                   version, hilo_act>>
    /\ UNCHANGED <<varsFeed, varsReload, varsHttp, varsTracking, varsProceso>>

\* self.theta = self.A_inv.dot(self.b)
SelTheta ==
    /\ hilo_sel.pc = "theta"
    /\ theta' = Escalar(A_inv, b)
    /\ hilo_sel' = [pc |-> "incertidumbres", leido_A |-> version.A,
                    leido_b |-> version.b, leido_A_inv |-> version.A_inv]
    /\ UNCHANGED <<A, b, A_inv, varsHistorial, registro, ultima, version,
                   hilo_act>>
    /\ UNCHANGED <<varsFeed, varsReload, varsHttp, varsTracking, varsProceso>>

\* incertidumbres (second read of A_inv), the exploration bonus, return
SelRetornar ==
    /\ hilo_sel.pc = "incertidumbres"
    /\ hilo_sel' = SinLectura
    /\ UNCHANGED <<A, b, A_inv, theta, varsHistorial, registro, ultima,
                   version, hilo_act>>
    /\ UNCHANGED <<varsFeed, varsReload, varsHttp, varsTracking, varsProceso>>

NextBanditHilos ==
    \/ ActEntrar
    \/ ActA
    \/ ActB
    \/ ActAinv
    \/ ActHistorial
    \/ SelEntrar
    \/ SelTheta
    \/ SelRetornar

SpecBanditHilos == InitSpecBandit /\ [][NextBanditHilos]_vars

\* C16: bandit updates are serialized per category.  actualizar and
\* seleccionar_lote on the same bandit never interleave: the scorer never
\* reads A, b and A_inv that come from different updates.
C16_Serializado ==
    hilo_sel.pc = "incertidumbres" =>
        /\ hilo_sel.leido_A = hilo_sel.leido_b
        /\ hilo_sel.leido_b = hilo_sel.leido_A_inv


(***************************************************************************)
(* services/tracking.py: the buffered activity list and its drain.         *)
(* Gunicorn starts several worker processes (gunicorn.conf.py); each       *)
(* runs the feed handlers and its own periodic_flush, and all of them use  *)
(* the same Redis.  One worker is inside flush_user_activity_to_mysql      *)
(* while the handlers of another worker make tracking calls; each Redis    *)
(* command and each INSERT is one step.  A failing Redis raises on the     *)
(* redis_falla-th command of a call (lrange, delete inside the flush).     *)
(***************************************************************************)
varsNoTracking == <<varsFeed, varsReload, varsHttp, varsBandit>>

Retornar(n) ==
    [pc |-> "fuera", activities |-> <<>>, i |-> 0, inserted_count |-> n]

\* a handler of another worker calls ActivityTracker.track_feed_request
TrackFeedRequest ==
    /\ n_eventos < MaxEventos
    /\ LET t == track_feed_request(redis_client, redis_falla)
           k == IF t.push THEN 1 ELSE 0
       IN /\ user_activity' = Lpush(user_activity, n_eventos, k)
          /\ n_eventos' = n_eventos + k
          /\ rastreo' = <<t.ret>>
    /\ UNCHANGED <<redis_client, redis_falla, insertados, hilo_flush,
                   varsNoTracking, varsProceso>>

\* a handler of another worker calls ActivityTracker.track_video_view
TrackVideoView ==
    /\ n_eventos < MaxEventos
    /\ LET t == track_video_view(redis_client, redis_falla)
           k == IF t.push THEN 1 ELSE 0
       IN /\ user_activity' = Lpush(user_activity, n_eventos, k)
          /\ n_eventos' = n_eventos + k
          /\ rastreo' = <<t.ret>>
    /\ UNCHANGED <<redis_client, redis_falla, insertados, hilo_flush,
                   varsNoTracking, varsProceso>>

\* flush_user_activity_to_mysql up to the loop: the client test, lrange,
\* the emptiness test and MySQLConnection().connect(), which may raise
FlushLeer ==
    /\ hilo_flush.pc = "fuera"
    /\ Len(insertados) < MaxInsertados
    /\ conexiones <= MaxConexiones
    /\ \E mysql_falla \in BOOLEAN :
          IF redis_client = "None" \/ redis_falla = 1
             \/ user_activity = <<>> \/ mysql_falla
          THEN /\ hilo_flush' = Retornar(0)
               /\ UNCHANGED conexiones
          ELSE /\ hilo_flush' =
                      [pc |-> "insertar", activities |-> user_activity,
                       i |-> 1, inserted_count |-> 0]
               /\ conexiones' = Conectar(conexiones)
    /\ UNCHANGED <<redis_client, redis_falla, user_activity, insertados,
                   n_eventos, rastreo, varsNoTracking, bandits,
                   ultima_peticion>>

\* one iteration of the loop: execute_query inserts the event or raises,
\* and then the except of the method returns 0
FlushInsertar ==
    /\ hilo_flush.pc = "insertar"
    /\ hilo_flush.i <= Len(hilo_flush.activities)
    /\ \E mysql_falla \in BOOLEAN :
          IF mysql_falla
          THEN /\ hilo_flush' = Retornar(0)
               /\ UNCHANGED insertados
          ELSE /\ insertados' =
                      Append(insertados, hilo_flush.activities[hilo_flush.i])
               /\ hilo_flush' =
                      [hilo_flush EXCEPT
                          !.i = @ + 1, !.inserted_count = @ + 1]
    /\ UNCHANGED <<redis_client, redis_falla, user_activity, n_eventos,
                   rastreo, varsNoTracking, varsProceso>>

\* self.redis_client.delete(user_activity_key)
Borrar(lista) == <<>>

\* after the loop: mysql.close(), delete of the key, return inserted_count
FlushBorrar ==
    /\ hilo_flush.pc = "insertar"
    /\ hilo_flush.i > Len(hilo_flush.activities)
    /\ conexiones' = Cerrar(conexiones)
    /\ IF redis_falla = 2
       THEN /\ hilo_flush' = Retornar(0)
            /\ UNCHANGED user_activity
       ELSE /\ hilo_flush' = Retornar(hilo_flush.inserted_count)
            /\ user_activity' = Borrar(user_activity)
    /\ UNCHANGED <<redis_client, redis_falla, insertados, n_eventos,
                   rastreo, varsNoTracking, bandits, ultima_peticion>>

NextTracking ==
    \/ TrackFeedRequest
    \/ TrackVideoView
    \/ FlushLeer
    \/ FlushInsertar
    \/ FlushBorrar

InitSpecTracking ==
    /\ InitCatalogoFijo
    /\ InitReload
    /\ InitHttp
    /\ InitBandit
    /\ InitTrackingHttp
    /\ InitProceso

SpecTracking == InitSpecTracking /\ [][NextTracking]_vars

\* C17: the activity drain loses nothing.  Every event that was pushed to
\* user_activity:{user_id} is still in the list or has been inserted into
\* activity_log, also when it was pushed while a flush was between reading
\* the list and deleting the key.
C17_DrenajeSinPerdida ==
    \A e \in 1..n_eventos :
        e \in Range(user_activity) \/ e \in Range(insertados)


(***************************************************************************)
(* Claims about tracking inside the feed handlers (under SpecHttp)         *)
(***************************************************************************)
\* the raw exclusion value each handler reads from the request body
ExcluidosCrudos ==
    CASE endpoint = "total" ->
             Get(data, "excluded_ids",
                 Get(data, "LAST_IDS",
                     Get(data, "videos_excluidos", Lista(<<>>))))
      [] endpoint = "discover" ->
             Get(data, "LAST_IDS",
                 Get(data, "videos_excluidos", Lista(<<>>)))
      [] OTHER ->
             Get(data, "videos_excluidos",
                 Get(data, "LAST_IDS", Lista(<<>>)))

\* the response of the handler to this request when every Redis command
\* succeeds
RespuestaConCacheSana ==
    LET ids == parse_excluded_ids(ExcluidosCrudos)
    IN IF ~ids.ok THEN [statusCode |-> 500, ids |-> <<>>]
       ELSE [statusCode |-> 200,
             ids |-> CASE endpoint = "total" ->
                          IdsDeRespuesta(
                              generar_scroll_infinito(Range(ids.ids), TRUE,
                                                      semilla), TRUE)
                       [] endpoint = "discover" ->
                          IdsDeRespuesta(
                              generar_scroll_infinito(Range(ids.ids), FALSE,
                                                      semilla), FALSE)
                       [] OTHER ->
                          IdsDeRespuesta(
                              generar_feed_flows_only(N_FLOWS_ONLY, ids.ids,
                                                      db_falla, semilla),
                              TRUE)]

CacheFalla == redis_client = "None" \/ redis_falla # 0

\* C18: activity-store failures are isolated.  No exception leaves
\* track_feed_request or track_video_view; a call made without a connected
\* cache, or one of whose cache commands fails, returns False; and the
\* handler answers what it answers with a working cache (statusCode 200
\* with the same items).
C18_FallosAislados ==
    (pc_http = "respondida" /\ CacheFalla) =>
        /\ ~track_feed_request(redis_client, redis_falla).raises
        /\ ~track_video_view(redis_client, redis_falla).raises
        /\ (redis_client = "None" \/ redis_falla <= COMANDOS_FEED_REQUEST)
               => \A i \in 1..Len(rastreo) : ~rastreo[i]
        /\ \A i \in 2..Len(rastreo) : ~rastreo[i]
        /\ respuesta = RespuestaConCacheSana

\* a handler answered 200 with items although every tracking call failed
C18_Witness ==
    /\ pc_http = "respondida"
    /\ redis_client = "conectado" /\ redis_falla = 1
    /\ respuesta.statusCode = 200
    /\ Len(respuesta.ids) > 1
    /\ Len(rastreo) > 2
    /\ \A i \in 1..Len(rastreo) : ~rastreo[i]


(***************************************************************************)
(* Claims about the AU pool and the positions (under Spec and SpecHttp)    *)
(***************************************************************************)
\* the first AU pool item among the n after the cursor that is not
\* blacklisted, not used, whose creator is not in the window and that
\* passes the skill test (0 when there is none)
SiguienteAceptableAU(s, n) ==
    LET aceptables ==
            {j \in (s.idx_au + 1)..Min(Len(pool_au), s.idx_au + n) :
                /\ video_a_url(pool_au[j]) \notin lista_negra
                /\ pool_au[j] \notin s.ids_usados
                /\ video_a_creador(pool_au[j])
                       \notin s.creadores_usados_en_feed
                /\ SkillsAceptables(pool_au[j], s)}
    IN IF aceptables = {} THEN 0
       ELSE CHOOSE j \in aceptables : \A k \in aceptables : j <= k

AUEnListaNegra == {v \in Range(pool_au) : video_a_url(v) \in lista_negra}

SinListaNegraAU ==
    \A i \in 1..Len(feed) :
        feed[i].type = "resume" => feed[i].video_id \notin AUEnListaNegra

\* the AU slot takes pool_au[j] and leaves the cursor on it
LlenaConAU(j) ==
    /\ Len(feed') = Len(feed) + 1
    /\ feed'[Len(feed')].video_id = pool_au[j]
    /\ feed'[Len(feed')].patron_type = "AU"
    /\ fuente'[Len(feed')] = "AU"
    /\ idx_au' = j

\* C19 as stated: no resume entry of the feed, in any position and under
\* any slot type, is a blacklisted item of the AU pool; and an AU slot is
\* filled by the next acceptable item of the AU pool whenever the pool has
\* one after the cursor.
C19_GuardaPoolAU ==
    /\ []SinListaNegraAU
    /\ [][SlotAUStep =>
            LET j == SiguienteAceptableAU(ReiniciarVentana(Estado),
                                          Len(pool_au))
            IN j # 0 => LlenaConAU(j)]_vars

\* C19 amended: no resume entry of the feed, in any position and under any
\* slot type, is a blacklisted item of the AU pool; and an AU slot is
\* filled by the next acceptable item of the AU pool whenever one is among
\* the 150 items after the cursor, which is as far as one walk goes.
C19_GuardaPoolAUConTope ==
    /\ []SinListaNegraAU
    /\ [][SlotAUStep =>
            LET j == SiguienteAceptableAU(ReiniciarVentana(Estado),
                                          MAX_INTENTOS)
            IN j # 0 => LlenaConAU(j)]_vars

\* an AU slot went past a blacklisted item of the AU pool and was filled by
\* a later item of that pool
C19_Witness ==
    /\ Len(feed) > 0
    /\ fuente[Len(feed)] = "AU"
    /\ idx_au > 1
    /\ video_a_url(pool_au[idx_au - 1]) \in lista_negra
    /\ feed[Len(feed)].video_id = pool_au[idx_au]


\* C20: positions are assigned from 1 without gaps.  In every feed returned
\* by generar_scroll_infinito (total, discover) and by
\* generar_feed_flows_only (flow), the entry at list index i has position
\* i + 1; the sequences of the model are indexed from 1, so entry i has
\* position i.
C20_PosicionesSinHuecos ==
    (pc_http = "respondida" /\ respuesta.statusCode = 200) =>
        \A i \in 1..Len(feed_motor) : feed_motor[i].position = i

\* the flows-only feed came back with its 24 entries
C20_Witness ==
    /\ pc_http = "respondida"
    /\ endpoint = "flow"
    /\ Len(feed_motor) = N_FLOWS_ONLY
    /\ feed_motor[N_FLOWS_ONLY].position = N_FLOWS_ONLY


(***************************************************************************)
(* The three bandits of the engine across the requests of one process.     *)
(* generar_scroll_infinito scores its candidates with seleccionar_lote of  *)
(* bandit_vmp, bandit_nu and bandit_au; generar_feed_flows_only uses no    *)
(* bandit; reload_data drops the engine and builds a new one, whose        *)
(* __init__ runs _inicializar_bandits.  actualizar is called by the        *)
(* feedback channel of the caller.                                         *)
(***************************************************************************)
varsNoProceso ==
    <<varsFeed, varsReload, varsHttp, varsBandit, varsTracking, conexiones>>

\* BanditContextualAdaptativo.actualizar(contexto, recompensa) on bandit bd
BanditActualizado(bd, x, r) ==
    LET hr == Append(bd.historial_recompensas, r)
        hc == Append(bd.historial_contextos, x)
    IN [A |-> bd.A + x * x,
        b |-> bd.b + r * x,
        theta |-> bd.theta,
        A_inv |-> Inversa(bd.A + x * x),
        historial_recompensas |-> Recortar(hr),
        historial_contextos |->
            IF Len(hr) > MAX_HISTORY_SIZE
            THEN Ultimos(hc, HISTORY_TRIM_SIZE) ELSE hc]

\* BanditContextualAdaptativo.seleccionar_lote on bandit bd
BanditConsultado(bd) == [bd EXCEPT !.theta = Escalar(bd.A_inv, bd.b)]

TotalActualizaciones ==
    Len(bandits["vmp"].historial_recompensas)
    + Len(bandits["au"].historial_recompensas)
    + Len(bandits["nu"].historial_recompensas)

\* the caller reports a reward to the bandit of one category
ActualizarBandit ==
    /\ TotalActualizaciones < MaxActualizacionesProceso
    /\ \E c \in Categorias, x \in Contextos, r \in Recompensas :
          bandits' = [bandits EXCEPT ![c] = BanditActualizado(@, x, r)]
    /\ ultima_peticion' = "actualizar"
    /\ UNCHANGED varsNoProceso

\* POST /search/total: generar_scroll_infinito builds the VMP, NU and AU
\* pools, each with one seleccionar_lote
PeticionTotal ==
    /\ bandits' = [c \in Categorias |-> BanditConsultado(bandits[c])]
    /\ ultima_peticion' = "total"
    /\ UNCHANGED varsNoProceso

\* POST /search/discover: generar_scroll_infinito with incluir_fw=False
PeticionDiscover ==
    /\ bandits' = [c \in Categorias |-> BanditConsultado(bandits[c])]
    /\ ultima_peticion' = "discover"
    /\ UNCHANGED varsNoProceso

\* POST /search/flow: generar_feed_flows_only
PeticionFlow ==
    /\ ultima_peticion' = "flow"
    /\ UNCHANGED <<bandits, varsNoProceso>>

\* POST /search/reload: both singletons are set to None and rebuilt;
\* RecommendationEngine.__init__ calls _inicializar_bandits
PeticionReload ==
    /\ bandits' = [c \in Categorias |-> BanditNuevo]
    /\ ultima_peticion' = "reload"
    /\ UNCHANGED varsNoProceso

NextProceso ==
    \/ ActualizarBandit
    \/ PeticionTotal
    \/ PeticionDiscover
    \/ PeticionFlow
    \/ PeticionReload

InitSpecProceso ==
    /\ InitCatalogoFijo /\ InitReload /\ InitHttp /\ InitBandit
    /\ InitTracking /\ InitProceso

SpecProceso == InitSpecProceso /\ [][NextProceso]_vars

\* C21: bandit state persists across requests.  For each request kind
\* (total, discover, flow, reload) the A, b and reward history of each of
\* the three bandits after the request are those before it.
C21_BanditsPersisten ==
    [][(PeticionTotal \/ PeticionDiscover \/ PeticionFlow \/ PeticionReload)
          => \A c \in Categorias :
                /\ bandits'[c].A = bandits[c].A
                /\ bandits'[c].b = bandits[c].b
                /\ bandits'[c].historial_recompensas
                       = bandits[c].historial_recompensas]_vars

(***************************************************************************)
(* Slot rules of the assembly loop                                         *)
(***************************************************************************)
\* the used-creator set an iteration works with (after the reset at its top)
VentanaActual == ReiniciarVentana(Estado).creadores_usados_en_feed

\* no flow left in the flow pool whose creator is outside the window
SinFlowFueraDeVentana ==
    \A i \in (idx_flow + 1)..Len(pool_flows) :
        flows_df[pool_flows[i]].user_id \in VentanaActual

\* C22: FW slots have no fallback.  An entry of the feed is of type
\* challenge exactly when its slot type is FW, an FW entry comes from the
\* flow pool, and a visit of an FW slot that finds no flow whose creator is
\* outside the current window (or finds the flow pool empty because flows
\* are disabled) leaves the feed as it was.
C22_FWSinFallback ==
    /\ [](\A i \in 1..Len(feed) :
            /\ (feed[i].type = "challenge") <=> (feed[i].patron_type = "FW")
            /\ (feed[i].patron_type = "FW") <=> (fuente[i] = "FW"))
    /\ [][(SlotFWStep /\ SinFlowFueraDeVentana) => feed' = feed]_vars

C22_Witness ==
    /\ pc = "done"
    /\ \E i \in 1..Len(feed) : feed[i].type = "challenge"
    /\ \E i \in 1..Len(feed) : feed[i].type = "resume"
    /\ \E v \in 1..Len(visitas) : visitas[v] = <<"FW", FALSE>>
    /\ Len(pool_flows) > 0

\* C23: pool disjointness.  Once the pools are built, the AU pool shares
\* no id with the VMP pool or the NU pool, the EXPLORE pool shares no id with
\* the VMP, NU or AU pools, and none of the five pools holds an id of the
\* exclusion set (seen items and the caller's excluded ids).
C23_PoolsDisjuntos ==
    pc # "inicio" =>
        /\ Range(pool_au) \cap (Range(pool_vmp) \cup Range(pool_nu)) = {}
        /\ Range(pool_exploracion)
               \cap (Range(pool_vmp) \cup Range(pool_nu) \cup Range(pool_au))
             = {}
        /\ \A x \in vistos \cup videos_excluidos :
              x \notin Range(pool_vmp) \cup Range(pool_nu) \cup Range(pool_au)
                       \cup Range(pool_flows) \cup Range(pool_exploracion)

C23_Witness ==
    /\ pc = "loop"
    /\ Range(pool_vmp) \cap Range(pool_nu) # {}
    /\ Len(pool_au) > 0 /\ Len(pool_exploracion) > 0 /\ Len(pool_flows) > 0
    /\ vistos # {} /\ videos_excluidos # {}

PoolsPrimarios == {"VMP", "AU", "NU"}

\* the skills of the resume entries before position j
SkillsAntes(j) ==
    UNION {cache_skills_video(feed[i].video_id) :
              i \in {x \in 1..(j - 1) : feed[x].type = "resume"}}

\* C24: skill-novelty rule.  Whenever a slot visit appends an entry taken
\* from the slot's own pool (VMP, AU or NU), the creator of the entry was
\* not in the current window and the entry had at least one skill outside
\* skills_usados or skills_usados held fewer than 3 skills; so no item
\* without a new skill is accepted from a primary pool once skills_usados
\* has 3 or more skills.
C24_NovedadDeSkills ==
    [][(pc = "loop" /\ Len(feed') > Len(feed)
          /\ fuente'[Len(feed')] \in PoolsPrimarios)
        => LET vid == feed'[Len(feed')].video_id
           IN /\ video_a_creador(vid) \notin VentanaActual
              /\ \/ cache_skills_video(vid) \ skills_usados # {}
                 \/ Cardinality(skills_usados) < MIN_SKILLS_USADOS]_vars

\* a finished feed with an entry accepted without a new skill while fewer
\* than 3 skills were used, an entry accepted with a new skill when 3 were
\* used, and a primary pool item that was walked over
C24_Witness ==
    /\ pc = "done"
    /\ \E j \in 1..Len(feed) :
          /\ fuente[j] \in PoolsPrimarios
          /\ cache_skills_video(feed[j].video_id) # {}
          /\ cache_skills_video(feed[j].video_id) \subseteq SkillsAntes(j)
    /\ \E j \in 1..Len(feed) :
          /\ fuente[j] \in PoolsPrimarios
          /\ Cardinality(SkillsAntes(j)) >= MIN_SKILLS_USADOS
    /\ \E i \in 1..idx_au :
          /\ pool_au[i] \notin ids_usados
          /\ video_a_creador(pool_au[i]) \notin Range(creadores_por_ventana)
          /\ ~_video_en_lista_negra(pool_au[i])

\* the cursor and the pool of the slot type visited next
CursorDe(tipo_slot) ==
    CASE tipo_slot = "VMP" -> [antes |-> idx_vmp, pool |-> pool_vmp]
      [] tipo_slot = "AU" -> [antes |-> idx_au, pool |-> pool_au]
      [] tipo_slot = "NU" -> [antes |-> idx_nu, pool |-> pool_nu]
      [] OTHER -> [antes |-> idx_flow, pool |-> pool_flows]

SlotActual == PATRON_FEED[pos_patron + 1]

\* C25: EXPLORE fallback.  A slot visit moves the EXPLORE cursor only for a
\* VMP, AU or NU slot whose own walk accepted nothing: the walk used up the
\* pool or its 150 attempts and the entry appended, if any, comes from
\* EXPLORE.  The EXPLORE item accepted is the first one after the cursor
\* whose creator is outside the current window, whatever its skills; when
\* EXPLORE has no such item the visit appends nothing.
C25_FallbackExplore ==
    [][(pc = "loop" /\ idx_explore' # idx_explore)
        => /\ SlotActual \in PoolsPrimarios
           /\ idx_explore' > idx_explore
           /\ LET c == CursorDe(SlotActual)
                  despues == CASE SlotActual = "VMP" -> idx_vmp'
                               [] SlotActual = "AU" -> idx_au'
                               [] OTHER -> idx_nu'
              IN \/ despues = Len(c.pool)
                 \/ despues - c.antes >= MAX_INTENTOS
           /\ \A i \in (idx_explore + 1)..(idx_explore' - 1) :
                 video_a_creador(pool_exploracion[i]) \in VentanaActual
           /\ IF video_a_creador(pool_exploracion[idx_explore'])
                     \notin VentanaActual
              THEN /\ Len(feed') = Len(feed) + 1
                   /\ fuente'[Len(feed')] = "EXPLORE"
                   /\ feed'[Len(feed')].video_id
                          = pool_exploracion[idx_explore']
              ELSE /\ feed' = feed
                   /\ idx_explore' = Len(pool_exploracion)]_vars

\* a finished feed shorter than 24 in which EXPLORE filled a slot with an
\* item that brought no new skill when 3 skills were used, and in which a
\* later slot was skipped after EXPLORE ran out
C25_Witness ==
    /\ pc = "done"
    /\ Len(feed) < VIDEOS_POR_RESPUESTA
    /\ idx_explore = Len(pool_exploracion)
    /\ \E j \in 1..Len(feed) :
          /\ fuente[j] = "EXPLORE"
          /\ Cardinality(SkillsAntes(j)) >= MIN_SKILLS_USADOS
          /\ cache_skills_video(feed[j].video_id) \subseteq SkillsAntes(j)
    /\ \E v \in 1..Len(visitas) :
          visitas[v][1] \in PoolsPrimarios /\ ~visitas[v][2]

(***************************************************************************)
(* Creators of the feed and the metrics                                    *)
(***************************************************************************)
CreadoresDelFeed == {CreadorDe(feed[i]) : i \in 1..Len(feed)}

\* C26: unique-creators metric.  For every returned feed,
\* metrics['unique_creators'] is the number of distinct creator ids among
\* all entries of the feed (and creator_diversity is that number over the
\* feed length, times 100).
C26_CreadoresUnicos ==
    pc = "done" => metricas.unique_creators = Cardinality(CreadoresDelFeed)

\* the creators of the last n entries of the feed, in feed order
CreadoresRecientes(n) ==
    [k \in 1..n |-> CreadorDe(feed[Len(feed) - n + k])]

BloqueDistinto(desde, hasta) ==
    \A i, j \in desde..Min(hasta, Len(feed)) :
        i # j => CreadorDe(feed[i]) # CreadorDe(feed[j])

Cursores ==
    [VMP |-> idx_vmp, AU |-> idx_au, NU |-> idx_nu, FW |-> idx_flow,
     EXPLORE |-> idx_explore]

PoolDe ==
    [VMP |-> pool_vmp, AU |-> pool_au, NU |-> pool_nu, FW |-> pool_flows,
     EXPLORE |-> pool_exploracion]

MaxVisitas ==
    ((VIDEOS_POR_RESPUESTA \div Len(PATRON_FEED)) + 1) * Len(PATRON_FEED)

\* C28: pool cursors never move back.  No step decreases any of the five
\* cursors; an entry appended by a slot visit is the pool item the cursor of
\* its pool stops at, so it lies after the old cursor position and every
\* item at or before a cursor is never examined again (the pools hold no
\* id twice); and the assembly loop makes at most 30 slot visits.
C28_CursoresMonotonos ==
    /\ [][\A t \in DOMAIN Cursores : Cursores'[t] >= Cursores[t]]_vars
    /\ [][(pc = "loop" /\ Len(feed') > Len(feed))
           => LET t == fuente'[Len(feed')]
              IN /\ Cursores'[t] > Cursores[t]
                 /\ feed'[Len(feed')].video_id = PoolDe[t][Cursores'[t]]]_vars
    /\ [][pc = "inicio"
           => \A t \in DOMAIN PoolDe :
                 Cardinality(Range(PoolDe'[t])) = Len(PoolDe'[t])]_vars
    /\ [](/\ Len(visitas) <= MaxVisitas
          /\ \A t \in DOMAIN Cursores : Cursores[t] <= Len(PoolDe[t]))

\* after 30 slot visits and a window reset, an item the VMP cursor has
\* passed is unused and its creator is outside the window
C28_Witness ==
    /\ pc = "done"
    /\ Len(visitas) = MaxVisitas
    /\ Len(feed) > VENTANA_DIVERSIDAD_CREADORES
    /\ \E i \in 1..idx_vmp :
          /\ pool_vmp[i] \notin ids_usados
          /\ video_a_creador(pool_vmp[i]) \notin creadores_usados_en_feed

\* the un-excluded videos outside the VMP and NU pools
FueraDeVMPyNU ==
    (VideoIds \ (vistos \cup videos_excluidos))
        \ (Range(pool_vmp) \cup Range(pool_nu))

\* C29: EXPLORE is empty unless AU is full.  Once the pools are built, the
\* EXPLORE pool is non-empty only if the AU pool has exactly 170 items; with
\* fewer than 171 un-excluded videos outside the VMP and NU pools EXPLORE is
\* empty, and then every entry a slot visit appends comes from the slot's
\* own pool, so a miss there leaves the slot unfilled.
C29_ExploreVacioSinAULleno ==
    /\ [](pc # "inicio" =>
            /\ Len(pool_exploracion) > 0 => Len(pool_au) = N_POOL_AU
            /\ Cardinality(FueraDeVMPyNU) < N_POOL_AU + 1
                  => Len(pool_exploracion) = 0)
    /\ [][(pc = "loop" /\ Len(pool_exploracion) = 0
              /\ Len(feed') > Len(feed))
           => fuente'[Len(feed')] = SlotActual]_vars

\* exactly 170 videos outside VMP and NU: the AU pool is full, EXPLORE is
\* empty and a VMP, AU or NU slot stayed unfilled
C29_Witness ==
    /\ pc = "done"
    /\ Len(pool_au) = N_POOL_AU
    /\ Cardinality(FueraDeVMPyNU) = N_POOL_AU
    /\ Len(pool_exploracion) = 0
    /\ \E v \in 1..Len(visitas) :
          visitas[v][1] \in PoolsPrimarios /\ ~visitas[v][2]

(***************************************************************************)
(* MySQL connections taken from the pool                                   *)
(***************************************************************************)
\* C30: connections are always released.  Whenever no call of
\* flush_user_activity_to_mysql or _obtener_flows_vistos_usuario is in
\* progress, every connection taken with MySQLConnection.connect() has been
\* given back with close(): none is held outside the pool, also after a
\* call in which a query raised.
C30_ConexionesDevueltas ==
    hilo_flush.pc = "fuera" => conexiones = 0

====
